---- MODULE Spec2Model ----
(***************************************************************************)
(* The in-process cache engine of                                          *)
(* src/src/infrastructure/caching/cache_service.py (class CacheService).   *)
(* Every public operation runs inside "with self._lock", so each one is    *)
(* one atomic action.  Time is a logical clock in whole seconds; sizes are *)
(* in bytes, with the megabyte scaled down to BytesPerMB bytes.            *)
(* An Optional[...] value is a set: {} is None, {x} is the value x.        *)
(*                                                                         *)
(* Seven specifications share the variables:                               *)
(*   Spec         the engine alone, each public operation one action;      *)
(*   HashSpec     QueryCache.get_query_hash (query_cache.py) on logged     *)
(*                calls;                                                   *)
(*   ServiceSpec  one process with its threads, the lock, the cleanup      *)
(*                thread, shutdown and the snapshot file;                  *)
(*   QuerySpec    QueryCache (query_cache.py) over the engine, each of its *)
(*                operations one action;                                   *)
(*   ThreadSpec   the process of ServiceSpec with a thread that calls      *)
(*                QueryCache, under fair scheduling;                       *)
(*   MiddlewareSpec  the decorators cache_rag_query and                    *)
(*                cache_document_processing (cache_middleware.py);         *)
(*   SingletonSpec   get_cache_service and get_query_cache called by       *)
(*                several threads.                                         *)
(***************************************************************************)
EXTENDS Integers, Sequences, FiniteSets, TLC

\* ------------------------------------------------------------------ bounds
MaxTime == 2          \* the clock runs over 0..MaxTime
MaxGets == 2          \* at most this many get calls
MaxEvictions == 1     \* at most this many evictions (capacity or sweep)
BytesPerMB == 2       \* bytes in a megabyte, scaled down from 1024 * 1024
MaxValueLen == 3      \* longest payload

Keys == {"A", "B", "C"}
Values == {[i \in 1..n |-> 1] : n \in 1..MaxValueLen}
TtlArgs == {{}, {1}}
MaxSizeArgs == {-1, 0, 1, 2}
MaxMemoryMbArgs == {-1, 0, 1}
DefaultTtlArgs == {{}, {-1}}

\* CacheStrategy
LRU == "lru"
LFU == "lfu"
FIFO == "fifo"
TTL == "ttl"
CacheStrategy == {LRU, LFU, FIFO, TTL}

VARIABLES
    phase,        \* "new": before __init__; "ready"; "ensure_capacity": a put is inside the eviction loop
    max_size,     \* self._max_size
    max_memory,   \* self._max_memory (bytes)
    strategy,     \* self._strategy
    default_ttl,  \* self._default_ttl
    cache,        \* self._cache: the OrderedDict as the sequence of its entries, oldest position first
    stats,        \* self._stats
    now,          \* datetime.now(), in seconds
    hist,         \* history: the get calls made so far, by what they returned
    recency,      \* history: the cached keys by their most recent put or successful get, oldest first
    hash_calls,   \* QueryCache.get_query_hash: the calls made so far, each with its arguments and result
    cached,       \* history: the cache_query_result calls whose query record is still kept under its key
    query_calls,  \* history: the number of QueryCache operations so far
    persistence_path, \* whether self._persistence_path is set
    lock,         \* self._lock: the thread that holds it, "" when free
    pc,           \* where each thread is: "main" (constructs, shuts down), "caller", "sweeper", "querier"
    stop_cleanup, \* self._stop_cleanup
    cache_data,   \* _save_cache: the cache_data dict each saving thread is building
    file,         \* the snapshot file at the persistence path
    last_writer,  \* history: the thread that last opened the snapshot file for writing
    calls,        \* history: the number of caller operations so far
    restarts,     \* history: the number of process restarts so far
    query_lock,   \* QueryCache._lock: the thread that holds it, "" when free
    cache_service_instance, \* _cache_service_instance: {} is None, {i} the i-th CacheService
    cache_service_lock,     \* _cache_service_lock: the thread that holds it, "" when free
    query_cache_instance,   \* _query_cache_instance: {} is None, {i} the i-th QueryCache
    query_cache_lock,       \* _query_cache_lock: the thread that holds it, "" when free
    instances,    \* the CacheService objects made so far, each "constructing" or "constructed"
    query_caches, \* the QueryCache objects made so far, each with the engine it holds
    getter        \* where each thread that asks for a singleton is, and what it got

vars == <<phase, max_size, max_memory, strategy, default_ttl, cache, stats, now, hist, recency>>

\* the threads, the lock and the snapshot file of one process
service == <<persistence_path, lock, pc, stop_cleanup, cache_data, file, last_writer, calls, restarts>>

\* the variables of QueryCache
query_cache == <<hash_calls, cached, query_calls, query_lock>>

\* the module-level singletons and the threads that ask for them
singletons == <<cache_service_instance, cache_service_lock, query_cache_instance,
                query_cache_lock, instances, query_caches, getter>>

\* the variables outside the cache engine
apart == <<query_cache, service, singletons>>

\* the threads that ask for a singleton
Getters == {"t1", "t2", "t3"}

\* ----------------------------------------------------------------- helpers
RECURSIVE SeqSum(_)
SeqSum(s) == IF s = <<>> THEN 0 ELSE Head(s) + SeqSum(Tail(s))

Without(s, k) == SelectSeq(s, LAMBDA x : x # k)

KeysOf(c) == {c[i].key : i \in 1..Len(c)}

IndexOf(c, k) == CHOOSE i \in 1..Len(c) : c[i].key = k

EntryOf(c, k) == c[IndexOf(c, k)]

RemoveAt(c, i) == [j \in 1..(Len(c) - 1) |-> IF j < i THEN c[j] ELSE c[j + 1]]

\* del self._cache[key] / self._cache.pop(key)
RemoveKey(c, k) == IF k \in KeysOf(c) THEN RemoveAt(c, IndexOf(c, k)) ELSE c

\* OrderedDict.move_to_end(key)
MoveToEnd(c, k) == Append(RemoveKey(c, k), EntryOf(c, k))

Min(S) == CHOOSE x \in S : \A y \in S : x <= y

\* ------------------------------------------------------------- CacheEntry
\* IsExpired counting from the last access instead of the insertion
IsExpiredSinceAccess(e, t) == e.ttl # {} /\ \E x \in e.ttl : (t - e.last_accessed) > x

\* CacheEntry.is_expired, at clock value t
IsExpired(e, t) == e.ttl # {} /\ \E x \in e.ttl : (t - e.created_at) > x

\* Access that also restarts the entry's age
AccessRestamps(e) == [e EXCEPT !.last_accessed = now, !.access_count = @ + 1, !.created_at = now]

\* CacheEntry.access
Access(e) == [e EXCEPT !.last_accessed = now, !.access_count = @ + 1]

\* ------------------------------------------------------------- CacheStats
NewStats == [total_size |-> 0, entry_count |-> 0, hit_count |-> 0,
             miss_count |-> 0, eviction_count |-> 0, total_requests |-> 0]

\* CacheStats.hit_rate, as the fraction num / den (0.0 is 0 / 1)
HitRate(st) ==
    IF st.total_requests = 0 THEN [num |-> 0, den |-> 1]
    ELSE [num |-> st.hit_count, den |-> st.total_requests]

\* ----------------------------------------------------------- CacheService
\* _calculate_size: the length of the serialized payload
CalculateSize(v) == Len(v)

\* Oversize with the limit itself rejected
OversizeAtLimit(size) == size >= max_memory

\* Oversize with one byte over the limit admitted
OversizeOffByOne(size) == size > max_memory + 1

\* put: "if size > self._max_memory"
Oversize(size) == size > max_memory

\* put: "ttl=ttl or self._default_ttl"
EffectiveTtl(t) == IF t = {} \/ t = {0} THEN default_ttl ELSE t

\* get: the statistics of a lookup that finds no key
MissStats(st) == [st EXCEPT !.miss_count = @ + 1]

\* ExpiredStats that forgets the miss
ExpiredStatsNoMiss(st) == [st EXCEPT !.entry_count = @ - 1]

\* ExpiredStats that leaves entry_count as it is
ExpiredStatsKeepsCount(st) == [st EXCEPT !.miss_count = @ + 1]

\* get: the statistics of a lookup that finds an expired entry
ExpiredStats(st) == [st EXCEPT !.miss_count = @ + 1, !.entry_count = @ - 1]

\* get: the statistics of a hit
HitStats(st) == [st EXCEPT !.hit_count = @ + 1]

\* Touch that leaves the order alone
TouchNoReorder(c, k) == c

\* get: "if self._strategy == CacheStrategy.LRU: self._cache.move_to_end(key)"
Touch(c, k) == IF strategy = LRU THEN MoveToEnd(c, k) ELSE c

\* get(key) on the map c and the counters st: the return value and the state it leaves
GetOutcome(c, st, k) ==
    LET st1 == [st EXCEPT !.total_requests = @ + 1] IN
    IF k \notin KeysOf(c)
    THEN [ret |-> {}, cache |-> c, stats |-> MissStats(st1)]
    ELSE LET entry == EntryOf(c, k) IN
         IF IsExpired(entry, now)
         THEN [ret |-> {}, cache |-> RemoveKey(c, k), stats |-> ExpiredStats(st1)]
         ELSE [ret |-> {entry.value},
               cache |-> Touch([c EXCEPT ![IndexOf(c, k)] = Access(entry)], k),
               stats |-> HitStats(st1)]

\* VictimIndex whose FIFO takes the newest entry
VictimIndexNewest(c) ==
    IF strategy = LRU THEN 1
    ELSE IF strategy = LFU
         THEN Min({i \in 1..Len(c) : \A j \in 1..Len(c) : c[i].access_count <= c[j].access_count})
    ELSE IF strategy = FIFO THEN Len(c)
    ELSE LET expired_keys == {i \in 1..Len(c) : IsExpired(c[i], now)} IN
         IF expired_keys # {} THEN Min(expired_keys) ELSE 1

\* VictimIndex whose LFU takes the first entry whatever its access_count
VictimIndexFirst(c) ==
    IF strategy = LRU THEN 1
    ELSE IF strategy = LFU THEN 1
    ELSE IF strategy = FIFO THEN 1
    ELSE LET expired_keys == {i \in 1..Len(c) : IsExpired(c[i], now)} IN
         IF expired_keys # {} THEN Min(expired_keys) ELSE 1

\* VictimIndex whose TTL policy does not look for expired entries
VictimIndexNoExpiry(c) ==
    IF strategy = LRU THEN 1
    ELSE IF strategy = LFU
         THEN Min({i \in 1..Len(c) : \A j \in 1..Len(c) : c[i].access_count <= c[j].access_count})
    ELSE 1

\* _evict_one: the position of the victim in a non-empty cache
VictimIndex(c) ==
    IF strategy = LRU THEN 1
    ELSE IF strategy = LFU
         THEN Min({i \in 1..Len(c) : \A j \in 1..Len(c) : c[i].access_count <= c[j].access_count})
    ELSE IF strategy = FIFO THEN 1
    ELSE LET expired_keys == {i \in 1..Len(c) : IsExpired(c[i], now)} IN
         IF expired_keys # {} THEN Min(expired_keys) ELSE 1

\* _evict_one, on s = [cache, stats, evicted, spin]; evicted lists the victims' keys
EvictOne(s) ==
    IF s.cache = <<>> THEN s
    ELSE LET i == VictimIndex(s.cache)
             entry == s.cache[i]
         IN [s EXCEPT !.cache = RemoveAt(s.cache, i),
                      !.stats = [s.stats EXCEPT !.total_size = @ - entry.size,
                                                !.entry_count = @ - 1,
                                                !.eviction_count = @ + 1],
                      !.evicted = Append(s.evicted, entry.key)]

\* CountFull that lets the cache reach max_size + 1
CountOver(c) == Len(c) > max_size

\* _ensure_capacity: "while len(self._cache) >= self._max_size"
CountFull(c) == Len(c) >= max_size

\* _ensure_capacity: "while self._stats.total_size + new_size > self._max_memory and self._cache"
MemoryFull(s, new_size) == s.stats.total_size + new_size > max_memory /\ s.cache # <<>>

\* _ensure_capacity, first loop.  An iteration that changes nothing while its
\* condition still holds repeats forever: spin records that the loop never exits.
RECURSIVE EnsureCount(_)
EnsureCount(s) ==
    IF CountFull(s.cache)
    THEN IF EvictOne(s) = s THEN [s EXCEPT !.spin = TRUE] ELSE EnsureCount(EvictOne(s))
    ELSE s

\* _ensure_capacity, second loop
RECURSIVE EnsureMemory(_, _)
EnsureMemory(s, new_size) ==
    IF MemoryFull(s, new_size)
    THEN IF EvictOne(s) = s THEN [s EXCEPT !.spin = TRUE] ELSE EnsureMemory(EvictOne(s), new_size)
    ELSE s

\* _ensure_capacity(new_size)
EnsureCapacity(s, new_size) ==
    LET s1 == EnsureCount(s) IN IF s1.spin THEN s1 ELSE EnsureMemory(s1, new_size)

\* put(key, value, ttl) on the map c and the counters st: the return value, the
\* state it leaves, the keys it evicted, and whether it is still in the eviction loop
PutOutcome(c, st, k, v, t) ==
    LET size == CalculateSize(v) IN
    IF Oversize(size)
    THEN [ok |-> FALSE, cache |-> c, stats |-> st, evicted |-> <<>>, spin |-> FALSE]
    ELSE LET s0 == IF k \in KeysOf(c)
                   THEN [cache |-> RemoveKey(c, k),
                         stats |-> [st EXCEPT !.total_size = @ - EntryOf(c, k).size,
                                              !.entry_count = @ - 1],
                         evicted |-> <<>>, spin |-> FALSE]
                   ELSE [cache |-> c, stats |-> st, evicted |-> <<>>, spin |-> FALSE]
             entry == [key |-> k, value |-> v, created_at |-> now, last_accessed |-> now,
                       access_count |-> 0, ttl |-> EffectiveTtl(t), size |-> size]
             s1 == EnsureCapacity(s0, size)
         IN IF s1.spin
            THEN [ok |-> FALSE, cache |-> s1.cache, stats |-> s1.stats,
                  evicted |-> s1.evicted, spin |-> TRUE]
            ELSE [ok |-> TRUE, cache |-> Append(s1.cache, entry),
                  stats |-> [s1.stats EXCEPT !.entry_count = @ + 1, !.total_size = @ + size],
                  evicted |-> s1.evicted, spin |-> FALSE]

\* CleanupOutcome that stops after the first expired entry
CleanupOutcomeFirstOnly(s) ==
    LET expired_keys == {i \in 1..Len(s.cache) : IsExpired(s.cache[i], now)} IN
    IF expired_keys = {} THEN s
    ELSE LET i == Min(expired_keys)
             entry == s.cache[i]
         IN [cache |-> RemoveAt(s.cache, i),
             stats |-> [s.stats EXCEPT !.total_size = @ - entry.size,
                                       !.entry_count = @ - 1,
                                       !.eviction_count = @ + 1]]

\* _cleanup_expired: the state it leaves, on s = [cache, stats]
RECURSIVE CleanupOutcome(_)
CleanupOutcome(s) ==
    LET expired_keys == {i \in 1..Len(s.cache) : IsExpired(s.cache[i], now)} IN
    IF expired_keys = {} THEN s
    ELSE LET i == Min(expired_keys)
             entry == s.cache[i]
         IN CleanupOutcome([cache |-> RemoveAt(s.cache, i),
                            stats |-> [s.stats EXCEPT !.total_size = @ - entry.size,
                                                      !.entry_count = @ - 1,
                                                      !.eviction_count = @ + 1]])

\* get_memory_usage: usage_percentage, rounded down
UsagePercentage ==
    IF max_memory > 0 THEN (stats.total_size * 100) \div max_memory ELSE 0

\* ---------------------------------------------------------------- actions
\* the keys of r (oldest touch first) that are still in the cache c
Present(r, c) == SelectSeq(r, LAMBDA x : x \in KeysOf(c))

config == <<max_size, max_memory, strategy, default_ttl>>

Init ==
    /\ phase = "new"
    /\ max_size = 0
    /\ max_memory = 0
    /\ strategy = LRU
    /\ default_ttl = {}
    /\ cache = <<>>
    /\ stats = NewStats
    /\ now = 0
    /\ hist = [gets |-> 0, hits |-> 0, misses |-> 0]
    /\ recency = <<>>
    /\ hash_calls = <<>>
    /\ cached = {}
    /\ query_calls = 0
    /\ persistence_path = FALSE
    /\ lock = ""
    /\ pc = [main |-> "new", caller |-> "idle", sweeper |-> "unstarted", querier |-> "idle"]
    /\ stop_cleanup = FALSE
    /\ cache_data = [t \in {"main", "sweeper"} |->
                       [stats |-> [hit_count |-> 0, miss_count |-> 0,
                                   eviction_count |-> 0, total_requests |-> 0],
                        entries |-> <<>>, todo |-> 0, dirty |-> FALSE]]
    /\ file = [kind |-> "missing", entries |-> <<>>,
               stats |-> [hit_count |-> 0, miss_count |-> 0,
                          eviction_count |-> 0, total_requests |-> 0]]
    /\ last_writer = ""
    /\ calls = 0
    /\ restarts = 0
    /\ query_lock = ""
    /\ cache_service_instance = {}
    /\ cache_service_lock = ""
    /\ query_cache_instance = {}
    /\ query_cache_lock = ""
    /\ instances = <<>>
    /\ query_caches = <<>>
    /\ getter = [t \in Getters |-> [pc |-> "idle", op |-> "", new |-> {}, cache |-> {}, ret |-> {}]]

\* CacheService.__init__(max_size, max_memory_mb, strategy, default_ttl)
Construct(ms, mb, sg, dt) ==
    /\ phase = "new"
    /\ max_size' = ms
    /\ max_memory' = mb * BytesPerMB
    /\ strategy' = sg
    /\ default_ttl' = dt
    /\ cache' = <<>>
    /\ stats' = NewStats
    /\ phase' = "ready"
    /\ UNCHANGED <<now, hist, recency>>
    /\ UNCHANGED apart

\* get(key)
Get(k) ==
    /\ phase = "ready"
    /\ stats.total_requests < MaxGets
    /\ LET r == GetOutcome(cache, stats, k) IN
       /\ cache' = r.cache
       /\ stats' = r.stats
       /\ hist' = [gets |-> hist.gets + 1,
                   hits |-> hist.hits + (IF r.ret # {} THEN 1 ELSE 0),
                   misses |-> hist.misses + (IF r.ret = {} THEN 1 ELSE 0)]
       /\ recency' = IF r.ret # {} THEN Append(Without(recency, k), k)
                                   ELSE Present(recency, r.cache)
    /\ UNCHANGED <<phase, config, now>>
    /\ UNCHANGED apart

\* put(key, value, ttl).  A put whose eviction loop never exits does not return:
\* the caller stays in _ensure_capacity, holding the lock.
Put(k, v, t) ==
    /\ phase = "ready"
    /\ LET r == PutOutcome(cache, stats, k, v, t) IN
       /\ r.stats.eviction_count <= MaxEvictions
       /\ cache' = r.cache
       /\ stats' = r.stats
       /\ IF r.spin
          THEN /\ phase' = "ensure_capacity"
               /\ recency' = Present(recency, r.cache)
          ELSE /\ phase' = phase
               /\ recency' = IF r.ok THEN Append(Without(Present(recency, r.cache), k), k)
                                     ELSE recency
    /\ UNCHANGED <<config, now, hist>>
    /\ UNCHANGED apart

\* one more iteration of the eviction loop of a put that cannot leave it
EnsureCapacitySpin ==
    /\ phase = "ensure_capacity"
    /\ CountFull(cache)
    /\ EvictOne([cache |-> cache, stats |-> stats, evicted |-> <<>>, spin |-> FALSE]).cache = cache
    /\ UNCHANGED vars
    /\ UNCHANGED apart

\* delete(key)
Delete(k) ==
    /\ phase = "ready"
    /\ IF k \in KeysOf(cache)
       THEN /\ stats' = [stats EXCEPT !.total_size = @ - EntryOf(cache, k).size,
                                      !.entry_count = @ - 1]
            /\ cache' = RemoveKey(cache, k)
       ELSE /\ UNCHANGED <<cache, stats>>
    /\ recency' = Without(recency, k)
    /\ UNCHANGED <<phase, config, now, hist>>
    /\ UNCHANGED apart

\* clear()
Clear ==
    /\ phase = "ready"
    /\ cache' = <<>>
    /\ stats' = [stats EXCEPT !.entry_count = 0, !.total_size = 0]
    /\ recency' = <<>>
    /\ UNCHANGED <<phase, config, now, hist>>
    /\ UNCHANGED apart

\* one wake-up of cleanup_worker: _cleanup_expired
CleanupExpired ==
    /\ phase = "ready"
    /\ LET r == CleanupOutcome([cache |-> cache, stats |-> stats]) IN
       /\ r.stats.eviction_count <= MaxEvictions
       /\ cache' = r.cache
       /\ stats' = r.stats
       /\ recency' = Present(recency, r.cache)
    /\ UNCHANGED <<phase, config, now, hist>>
    /\ UNCHANGED apart

\* the wall clock advances
Tick ==
    /\ now < MaxTime
    /\ now' = now + 1
    /\ UNCHANGED <<phase, config, cache, stats, hist, recency>>
    /\ UNCHANGED apart

Next ==
    \/ \E ms \in MaxSizeArgs, mb \in MaxMemoryMbArgs, sg \in CacheStrategy, dt \in DefaultTtlArgs :
          Construct(ms, mb, sg, dt)
    \/ \E k \in Keys : Get(k)
    \/ \E k \in Keys, v \in Values, t \in TtlArgs : Put(k, v, t)
    \/ EnsureCapacitySpin
    \/ \E k \in Keys : Delete(k)
    \/ Clear
    \/ CleanupExpired
    \/ Tick

Spec == Init /\ [][Next]_vars

\* ------------------------------------------------------------- query hash
\* query_cache.py, QueryCache.get_query_hash.  A string is the sequence of its
\* characters.  A dict is the sequence of its <<key, value>> pairs in insertion order.
HashQueries == {<<"a">>, <<"A">>, <<" ", "a">>, <<"a", " ">>, <<"a", "b">>}
HashModelNames == {<<>>, <<"b">>}
HashContexts == {<<>>, <<"c">>}
HashExtraParams == {{}, {<<>>},
                    {<< <<"x", "1">>, <<"y", "2">> >>},
                    {<< <<"y", "2">>, <<"x", "1">> >>}}
MaxHashCalls == 2     \* at most this many get_query_hash calls

\* the keys of the extra parameters in sorted order
SortedParamKeys == <<"x", "y">>

Lower(ch) == IF ch = "A" THEN "a" ELSE ch

RECURSIVE LStrip(_)
LStrip(str) == IF str # <<>> /\ Head(str) = " " THEN LStrip(Tail(str)) ELSE str

RECURSIVE RStrip(_)
RStrip(str) ==
    IF str # <<>> /\ str[Len(str)] = " " THEN RStrip(SubSeq(str, 1, Len(str) - 1)) ELSE str

\* query.strip().lower()
NormalizeQuery(query) ==
    LET stripped == RStrip(LStrip(query)) IN [i \in 1..Len(stripped) |-> Lower(stripped[i])]

\* hashlib.md5(context).hexdigest(): the digest, taken as injective, is the text
\* behind a mark
Md5Hex(context) == <<"md5">> \o context

RECURSIVE JoinPairs(_)
JoinPairs(pairs) ==
    IF pairs = <<>> THEN <<>>
    ELSE <<Head(pairs)[1], ":", Head(pairs)[2]>>
         \o (IF Len(pairs) > 1 THEN <<",">> ELSE <<>>) \o JoinPairs(Tail(pairs))

\* json.dumps(params) in insertion order
JsonDumpsUnsorted(params) == <<"{">> \o JoinPairs(params) \o <<"}">>

\* json.dumps(params, sort_keys=True)
JsonDumps(params) ==
    LET present == SelectSeq(SortedParamKeys,
                             LAMBDA k : \E i \in 1..Len(params) : params[i][1] = k)
        sorted == [i \in 1..Len(present) |->
                     params[CHOOSE j \in 1..Len(params) : params[j][1] = present[i]]]
    IN <<"{">> \o JoinPairs(sorted) \o <<"}">>

\* what the calls of hasher.update() feed the hasher, in order
HashStream(query, model_name, context, extra_params) ==
    NormalizeQuery(query)
    \o model_name
    \o (IF context # <<>> THEN Md5Hex(context) ELSE <<>>)
    \o (IF extra_params # {} /\ extra_params # {<<>>}
        THEN JsonDumps(CHOOSE d \in extra_params : TRUE) ELSE <<>>)

\* hasher.hexdigest(): sha256, taken as injective
Sha256Hex(stream) == [sha256 |-> stream]

get_query_hash(query, model_name, context, extra_params) ==
    Sha256Hex(HashStream(query, model_name, context, extra_params))

\* one call of get_query_hash
GetQueryHash(query, model_name, context, extra_params) ==
    /\ Len(hash_calls) < MaxHashCalls
    /\ hash_calls' = Append(hash_calls,
           [query |-> query, model_name |-> model_name, context |-> context,
            extra_params |-> extra_params,
            hash |-> get_query_hash(query, model_name, context, extra_params)])
    /\ UNCHANGED <<vars, service, singletons, cached, query_calls, query_lock>>

HashNext ==
    \E query \in HashQueries, model_name \in HashModelNames,
          context \in HashContexts, extra_params \in HashExtraParams :
          GetQueryHash(query, model_name, context, extra_params)

HashSpec == Init /\ [][HashNext]_<<vars, apart>>

\* ------------------------------------------------- threads and persistence
\* One process that owns a CacheService: the thread that constructs it and later
\* shuts it down ("main"), a thread that calls get, put and delete ("caller") and
\* the cleanup thread ("sweeper").  A value is the sequence of its parts, each a
\* str, a tuple, a list or an object json cannot encode.
MaxCalls == 2         \* at most this many caller operations
MaxRestarts == 1      \* at most this many process restarts

ServiceKeys == {"A", "B"}
ServiceValues == {<<"str">>, <<"tuple">>, <<"object">>}
ServiceMaxSize == 2
ServiceMaxMemoryMb == 1
PersistencePathArgs == BOOLEAN

Threads == {"main", "caller", "sweeper"}
Savers == {"main", "sweeper"}

\* the four counters _save_cache writes and _load_cache restores
SavedStats(st) ==
    [hit_count |-> st.hit_count, miss_count |-> st.miss_count,
     eviction_count |-> st.eviction_count, total_requests |-> st.total_requests]

NoData == [stats |-> SavedStats(NewStats), entries |-> <<>>, todo |-> 0, dirty |-> FALSE]

NoFile == [kind |-> "missing", entries |-> <<>>, stats |-> SavedStats(NewStats)]

\* a file whose content is not a JSON document
Malformed == [kind |-> "malformed", entries |-> <<>>, stats |-> SavedStats(NewStats)]

\* a file that cannot be opened
Unreadable == [kind |-> "unreadable", entries |-> <<>>, stats |-> SavedStats(NewStats)]

\* datetime.isoformat() and datetime.fromisoformat()
IsoFormat(t) == [iso |-> t]
FromIsoFormat(str) == str.iso

\* the dict _save_cache stores for one entry
EntryData(e) ==
    [key |-> e.key, value |-> e.value, created_at |-> IsoFormat(e.created_at),
     last_accessed |-> IsoFormat(e.last_accessed), access_count |-> e.access_count,
     ttl |-> e.ttl]

\* json can encode the value
Serializable(v) == \A i \in 1..Len(v) : v[i] # "object"

\* the value json.load returns for what json.dump wrote: a tuple comes back a list
JsonValue(v) == [i \in 1..Len(v) |-> IF v[i] = "tuple" THEN "list" ELSE v[i]]

\* open(path, 'w') and json.dump(cache_data, f): the file they leave, on the file
\* old.  open fails on a file that cannot be opened; json.dump raises TypeError at
\* the first value it cannot encode, after open has truncated the file.
JsonDump(data, old) ==
    IF old.kind = "unreadable" THEN old
    ELSE IF \E i \in 1..Len(data.entries) : ~Serializable(data.entries[i].value)
    THEN Malformed
    ELSE [kind |-> "snapshot",
          entries |-> [i \in 1..Len(data.entries) |->
                         [data.entries[i] EXCEPT !.value = JsonValue(@)]],
          stats |-> data.stats]

\* the CacheEntry _load_cache builds from its created_at restamped to the load time
LoadEntryRestamped(d, t) ==
    [key |-> d.key, value |-> d.value, created_at |-> t,
     last_accessed |-> FromIsoFormat(d.last_accessed), access_count |-> d.access_count,
     ttl |-> d.ttl, size |-> CalculateSize(d.value)]

\* the CacheEntry _load_cache builds from one stored dict, at time t
LoadEntry(d, t) ==
    [key |-> d.key, value |-> d.value, created_at |-> FromIsoFormat(d.created_at),
     last_accessed |-> FromIsoFormat(d.last_accessed), access_count |-> d.access_count,
     ttl |-> d.ttl, size |-> CalculateSize(d.value)]

\* LoadEntries that leaves entry_count as it is
RECURSIVE LoadEntriesUncounted(_, _, _)
LoadEntriesUncounted(ds, s, t) ==
    IF ds = <<>> THEN s
    ELSE LET entry == LoadEntry(Head(ds), t) IN
         LoadEntriesUncounted(Tail(ds),
                     IF ~IsExpired(entry, t)
                     THEN [cache |-> Append(RemoveKey(s.cache, entry.key), entry),
                           stats |-> [s.stats EXCEPT !.total_size = @ + entry.size]]
                     ELSE s,
                     t)

\* the loop of _load_cache over the stored entries, on s = [cache, stats]
RECURSIVE LoadEntries(_, _, _)
LoadEntries(ds, s, t) ==
    IF ds = <<>> THEN s
    ELSE LET entry == LoadEntry(Head(ds), t) IN
         LoadEntries(Tail(ds),
                     IF ~IsExpired(entry, t)
                     THEN [cache |-> Append(RemoveKey(s.cache, entry.key), entry),
                           stats |-> [s.stats EXCEPT !.entry_count = @ + 1,
                                                     !.total_size = @ + entry.size]]
                     ELSE s,
                     t)

\* _load_cache without its try/except
LoadOutcomeUnguarded(f, c, st, t) ==
    IF f.kind = "missing" THEN [cache |-> c, stats |-> st, raised |-> FALSE]
    ELSE IF f.kind # "snapshot" THEN [cache |-> c, stats |-> st, raised |-> TRUE]
    ELSE LET s == LoadEntries(f.entries,
                              [cache |-> c,
                               stats |-> [st EXCEPT
                                   !.hit_count = f.stats.hit_count,
                                   !.miss_count = f.stats.miss_count,
                                   !.eviction_count = f.stats.eviction_count,
                                   !.total_requests = f.stats.total_requests]],
                              t)
         IN [cache |-> s.cache, stats |-> s.stats, raised |-> FALSE]

\* _load_cache on the file f, the engine state (c, st) and the clock t: the state
\* it leaves and whether it raised
LoadOutcome(f, c, st, t) ==
    IF f.kind \in {"missing", "unreadable", "malformed"}
    THEN [cache |-> c, stats |-> st, raised |-> FALSE]
    ELSE LET s == LoadEntries(f.entries,
                              [cache |-> c,
                               stats |-> [st EXCEPT
                                   !.hit_count = f.stats.hit_count,
                                   !.miss_count = f.stats.miss_count,
                                   !.eviction_count = f.stats.eviction_count,
                                   !.total_requests = f.stats.total_requests]],
                              t)
         IN [cache |-> s.cache, stats |-> s.stats, raised |-> FALSE]

\* a change of the OrderedDict reaches every iteration over it that is under way:
\* its next step raises RuntimeError
Interrupted(changed) ==
    [t \in Savers |-> IF changed /\ pc[t] = "save_items"
                      THEN [cache_data[t] EXCEPT !.dirty = TRUE] ELSE cache_data[t]]

\* AfterSave whose cleanup thread ends after its first save
AfterSaveStops(t) == IF t = "main" THEN "closed" ELSE "terminated"

\* where a thread goes on when _save_cache returns
AfterSave(t) == IF t = "main" THEN "closed" ELSE "wait"

\* between two runs the file is damaged or made unreadable from outside
DamageFile(f) ==
    /\ pc["main"] = "new"
    /\ file.kind \in {"missing", "snapshot"}
    /\ file' = f
    /\ UNCHANGED <<vars, query_cache, singletons, persistence_path, lock, pc, stop_cleanup, cache_data,
                   last_writer, calls, restarts>>

\* CacheService.__init__ up to _start_cleanup_thread()
StartService(path, ms) ==
    /\ pc["main"] = "new"
    /\ max_size' = ms
    /\ max_memory' = ServiceMaxMemoryMb * BytesPerMB
    /\ strategy' = LRU
    /\ default_ttl' = {}
    /\ cache' = <<>>
    /\ stats' = NewStats
    /\ phase' = "ready"
    /\ persistence_path' = path
    /\ stop_cleanup' = FALSE
    /\ pc' = [pc EXCEPT !["main"] = IF path THEN "load_cache" ELSE "ready",
                        !["sweeper"] = "wait"]
    /\ UNCHANGED <<now, hist, recency, query_cache, singletons, lock, cache_data, file, last_writer,
                   calls, restarts>>

\* the end of __init__: _load_cache(), which takes no lock
LoadCache ==
    /\ pc["main"] = "load_cache"
    /\ LET r == LoadOutcome(file, cache, stats, now) IN
       /\ cache' = r.cache
       /\ stats' = r.stats
       /\ cache_data' = Interrupted(r.cache # cache)
       /\ pc' = [pc EXCEPT !["main"] = IF r.raised THEN "raised" ELSE "ready"]
    /\ UNCHANGED <<phase, config, now, hist, recency, query_cache, singletons, persistence_path, lock,
                   stop_cleanup, file, last_writer, calls, restarts>>

\* a caller enters "with self._lock" of get, put or delete
CallerAcquire ==
    /\ pc["main"] \in {"ready", "join", "save_cache", "save_stats", "save_items"}
    /\ pc["caller"] = "idle"
    /\ calls < MaxCalls
    /\ lock = ""
    /\ lock' = "caller"
    /\ pc' = [pc EXCEPT !["caller"] = "locked"]
    /\ UNCHANGED <<vars, query_cache, singletons, persistence_path, stop_cleanup, cache_data, file,
                   last_writer, calls, restarts>>

\* the body of put(key, value, ttl), and the release of the lock.  A put whose
\* eviction loop never exits stays in _ensure_capacity and keeps the lock.
CallerPut(k, v, t) ==
    /\ pc["caller"] = "locked"
    /\ \E r \in {PutOutcome(cache, stats, k, v, t)} :
       /\ cache' = r.cache
       /\ stats' = r.stats
       /\ cache_data' = Interrupted(r.ok \/ r.cache # cache)
       /\ lock' = IF r.spin THEN lock ELSE ""
       /\ pc' = [pc EXCEPT !["caller"] = IF r.spin THEN "ensure_capacity" ELSE "idle"]
    /\ calls' = calls + 1
    /\ UNCHANGED <<phase, config, now, hist, recency, query_cache, singletons, persistence_path,
                   stop_cleanup, file, last_writer, restarts>>

\* the body of get(key), and the release of the lock
CallerGet(k) ==
    /\ pc["caller"] = "locked"
    /\ LET r == GetOutcome(cache, stats, k) IN
       /\ cache' = r.cache
       /\ stats' = r.stats
       /\ cache_data' = Interrupted(k \in KeysOf(cache)
                                    /\ (r.ret = {} \/ strategy = LRU))
    /\ lock' = ""
    /\ pc' = [pc EXCEPT !["caller"] = "idle"]
    /\ calls' = calls + 1
    /\ UNCHANGED <<phase, config, now, hist, recency, query_cache, singletons, persistence_path,
                   stop_cleanup, file, last_writer, restarts>>

\* the body of delete(key), and the release of the lock
CallerDelete(k) ==
    /\ pc["caller"] = "locked"
    /\ IF k \in KeysOf(cache)
       THEN /\ stats' = [stats EXCEPT !.total_size = @ - EntryOf(cache, k).size,
                                      !.entry_count = @ - 1]
            /\ cache' = RemoveKey(cache, k)
       ELSE /\ UNCHANGED <<cache, stats>>
    /\ cache_data' = Interrupted(k \in KeysOf(cache))
    /\ lock' = ""
    /\ pc' = [pc EXCEPT !["caller"] = "idle"]
    /\ calls' = calls + 1
    /\ UNCHANGED <<phase, config, now, hist, recency, query_cache, singletons, persistence_path,
                   stop_cleanup, file, last_writer, restarts>>

\* get_stats: the new CacheStats object it builds from the six counters
GetStatsOutcome(st) ==
    [total_size |-> st.total_size, entry_count |-> st.entry_count,
     hit_count |-> st.hit_count, miss_count |-> st.miss_count,
     eviction_count |-> st.eviction_count, total_requests |-> st.total_requests]

\* the body of get_stats(), which returns GetStatsOutcome(stats) to its caller
\* and changes nothing, and the release of the lock
CallerGetStats ==
    /\ pc["caller"] = "locked"
    /\ lock' = ""
    /\ pc' = [pc EXCEPT !["caller"] = "idle"]
    /\ calls' = calls + 1
    /\ UNCHANGED <<vars, query_cache, singletons, persistence_path, stop_cleanup, cache_data,
                   file, last_writer, restarts>>

\* cleanup_worker: self._stop_cleanup.wait(interval) times out with the event unset
SweeperWake ==
    /\ pc["sweeper"] = "wait"
    /\ ~stop_cleanup
    /\ pc' = [pc EXCEPT !["sweeper"] = "cleanup_expired"]
    /\ UNCHANGED <<vars, query_cache, singletons, persistence_path, lock, stop_cleanup, cache_data, file,
                   last_writer, calls, restarts>>

\* cleanup_worker: self._stop_cleanup.wait(interval) returns True; the thread ends
SweeperExit ==
    /\ pc["sweeper"] = "wait"
    /\ stop_cleanup
    /\ pc' = [pc EXCEPT !["sweeper"] = "terminated"]
    /\ UNCHANGED <<vars, query_cache, singletons, persistence_path, lock, stop_cleanup, cache_data, file,
                   last_writer, calls, restarts>>

\* _cleanup_expired: "with self._lock"
SweeperAcquire ==
    /\ pc["sweeper"] = "cleanup_expired"
    /\ lock = ""
    /\ lock' = "sweeper"
    /\ pc' = [pc EXCEPT !["sweeper"] = "cleaning"]
    /\ UNCHANGED <<vars, query_cache, singletons, persistence_path, stop_cleanup, cache_data, file,
                   last_writer, calls, restarts>>

\* _cleanup_expired: its body, and the release of the lock
SweeperCleanup ==
    /\ pc["sweeper"] = "cleaning"
    /\ LET r == CleanupOutcome([cache |-> cache, stats |-> stats]) IN
       /\ cache' = r.cache
       /\ stats' = r.stats
       /\ cache_data' = Interrupted(r.cache # cache)
    /\ lock' = ""
    /\ pc' = [pc EXCEPT !["sweeper"] = IF persistence_path THEN "save_cache" ELSE "wait"]
    /\ UNCHANGED <<phase, config, now, hist, recency, query_cache, singletons, persistence_path,
                   stop_cleanup, file, last_writer, calls, restarts>>

\* _save_cache, lines 396-403: hit_count and miss_count are read; no lock is
\* taken, so another thread may be inside get, or run one, before the next read
SaveBegin(t) ==
    /\ pc[t] = "save_cache"
    /\ cache_data' = [cache_data EXCEPT ![t] =
           [stats |-> [SavedStats(NewStats) EXCEPT !.hit_count = stats.hit_count,
                                                   !.miss_count = stats.miss_count],
            entries |-> <<>>, todo |-> 0, dirty |-> FALSE]]
    /\ pc' = [pc EXCEPT ![t] = "save_stats"]
    /\ UNCHANGED <<vars, query_cache, singletons, persistence_path, lock, stop_cleanup, file,
                   last_writer, calls, restarts>>

\* _save_cache, lines 404-411: eviction_count and total_requests are read and the
\* iteration over self._cache.items() starts
SaveStats(t) ==
    /\ pc[t] = "save_stats"
    /\ cache_data' = [cache_data EXCEPT ![t] =
           [@ EXCEPT !.stats.eviction_count = stats.eviction_count,
                     !.stats.total_requests = stats.total_requests,
                     !.todo = Len(cache)]]
    /\ pc' = [pc EXCEPT ![t] = "save_items"]
    /\ UNCHANGED <<vars, query_cache, singletons, persistence_path, lock, stop_cleanup, file,
                   last_writer, calls, restarts>>

\* _save_cache, lines 411-420: one step of the iteration.  On a dict that changed
\* since the iteration began the step raises RuntimeError, which the except clause
\* of _save_cache logs: the save ends without a write.
SaveItem(t) ==
    /\ pc[t] = "save_items"
    /\ cache_data[t].todo > 0
    /\ IF cache_data[t].dirty
       THEN /\ cache_data' = [cache_data EXCEPT ![t] = NoData]
            /\ pc' = [pc EXCEPT ![t] = AfterSave(t)]
       ELSE LET entry == cache[Len(cache) - cache_data[t].todo + 1] IN
            /\ cache_data' = [cache_data EXCEPT ![t] =
                   [@ EXCEPT !.todo = @ - 1,
                             !.entries = IF ~IsExpired(entry, now)
                                         THEN Append(@, EntryData(entry)) ELSE @]]
            /\ pc' = pc
    /\ UNCHANGED <<vars, query_cache, singletons, persistence_path, lock, stop_cleanup, file,
                   last_writer, calls, restarts>>

\* _save_cache, lines 422-428: open(path, 'w') and json.dump
SaveWrite(t) ==
    /\ pc[t] = "save_items"
    /\ cache_data[t].todo = 0
    /\ file' = JsonDump(cache_data[t], file)
    /\ last_writer' = IF file.kind = "unreadable" THEN last_writer ELSE t
    /\ cache_data' = [cache_data EXCEPT ![t] = NoData]
    /\ pc' = [pc EXCEPT ![t] = AfterSave(t)]
    /\ UNCHANGED <<vars, query_cache, singletons, persistence_path, lock, stop_cleanup, calls, restarts>>

\* shutdown(): self._stop_cleanup.set(), then the join begins
Shutdown ==
    /\ pc["main"] = "ready"
    /\ stop_cleanup' = TRUE
    /\ pc' = [pc EXCEPT !["main"] = "join"]
    /\ UNCHANGED <<vars, query_cache, singletons, persistence_path, lock, cache_data, file, last_writer,
                   calls, restarts>>

\* shutdown(): the thread has ended, so is_alive() is False or join returns
JoinReturns ==
    /\ pc["main"] = "join"
    /\ pc["sweeper"] = "terminated"
    /\ pc' = [pc EXCEPT !["main"] = IF persistence_path THEN "save_cache" ELSE "closed"]
    /\ UNCHANGED <<vars, query_cache, singletons, persistence_path, lock, stop_cleanup, cache_data, file,
                   last_writer, calls, restarts>>

\* shutdown(): join(timeout=5) gives up on a sweeper that is in the middle of a
\* cycle (waiting for the lock, sweeping or saving)
JoinTimesOut ==
    /\ pc["main"] = "join"
    /\ pc["sweeper"] \notin {"wait", "terminated"}
    /\ pc' = [pc EXCEPT !["main"] = IF persistence_path THEN "save_cache" ELSE "closed"]
    /\ UNCHANGED <<vars, query_cache, singletons, persistence_path, lock, stop_cleanup, cache_data, file,
                   last_writer, calls, restarts>>

\* the process ends after shutdown() and a new one begins: the daemon thread and
\* the engine's memory are gone, the file stays
Restart ==
    /\ pc["main"] = "closed"
    /\ pc["caller"] = "idle"
    /\ restarts < MaxRestarts
    /\ restarts' = restarts + 1
    /\ phase' = "new"
    /\ cache' = <<>>
    /\ stats' = NewStats
    /\ lock' = ""
    /\ pc' = [main |-> "new", caller |-> "idle", sweeper |-> "unstarted", querier |-> "idle"]
    /\ stop_cleanup' = FALSE
    /\ cache_data' = [t \in Savers |-> NoData]
    /\ last_writer' = ""
    /\ UNCHANGED <<config, now, hist, recency, query_cache, singletons, persistence_path, file, calls>>

ServiceNext ==
    \/ \E f \in {Malformed, Unreadable} : DamageFile(f)
    \/ \E path \in PersistencePathArgs : StartService(path, ServiceMaxSize)
    \/ LoadCache
    \/ CallerAcquire
    \/ \E k \in ServiceKeys, v \in ServiceValues, t \in TtlArgs : CallerPut(k, v, t)
    \/ \E k \in ServiceKeys : CallerGet(k)
    \/ \E k \in ServiceKeys : CallerDelete(k)
    \/ CallerGetStats
    \/ SweeperWake
    \/ SweeperExit
    \/ SweeperAcquire
    \/ SweeperCleanup
    \/ \E t \in Savers : SaveBegin(t)
    \/ \E t \in Savers : SaveStats(t)
    \/ \E t \in Savers : SaveItem(t)
    \/ \E t \in Savers : SaveWrite(t)
    \/ Shutdown
    \/ JoinReturns
    \/ JoinTimesOut
    \/ Restart
    \/ Tick

ServiceSpec == Init /\ [][ServiceNext]_<<vars, apart>>

\* ------------------------------------------------------------- query cache
\* query_cache.py, class QueryCache, over one CacheService.  Every operation runs
\* inside "with self._lock" and calls the engine from there; with one caller each
\* operation is one atomic action.  A dict is the sequence of its <<key, value>>
\* pairs, and its serialized length is the number of its pairs.
MaxQueryCalls == 2    \* at most this many QueryCache operations
MaxQueryTicks == 2    \* the clock advances at most this many times
ClockStep == 1900     \* the seconds the clock advances at a time

QueryTexts == {<<"a">>, <<"A", " ">>, <<"a", "b">>}
QueryModelNames == {<<>>, <<"b">>}
QueryContexts == {<<>>, <<"c">>}
QueryExtraParams == {{}, {<< <<"x", "1">> >>}}
Answers == {[response |-> "r1", retrieved_chunks |-> <<"k1">>],
            [response |-> "r2", retrieved_chunks |-> <<"k2">>]}
ChunkLists == {<<"k1">>, <<"k2">>}
QueryTtlArgs == {{}, {1000}}
QueryMaxSizeArgs == {1, 4}
QueryMaxMemoryMbArgs == {5, 12}

\* cache_query_result: "ttl or 1800"
DefaultQueryTtl == 1800

\* cache_retrieval_result: "ttl or 3600"
DefaultRetrievalTtl == 3600

\* f"{self._query_prefix}{query_hash}"
QueryKey(query_hash) == <<"query:", query_hash>>

\* f"{self._retrieval_prefix}{query_hash}"
RetrievalKey(query_hash) == <<"retrieval:", query_hash>>

\* d[name]
Field(d, name) == d[CHOOSE i \in 1..Len(d) : d[i][1] = name][2]

\* QueryCacheEntry.to_dict
ToDict(e) ==
    << <<"query_hash", e.query_hash>>,
       <<"original_query", e.original_query>>,
       <<"response", e.response>>,
       <<"retrieved_chunks", e.retrieved_chunks>>,
       <<"context_used", e.context_used>>,
       <<"model_name", e.model_name>>,
       <<"response_time", e.response_time>>,
       <<"cached_at", IsoFormat(e.cached_at)>>,
       <<"metadata", e.metadata>> >>

\* get_query_result: the QueryCacheEntry rebuilt from the cached dict
FromDict(d) ==
    [query_hash |-> Field(d, "query_hash"),
     original_query |-> Field(d, "original_query"),
     response |-> Field(d, "response"),
     retrieved_chunks |-> Field(d, "retrieved_chunks"),
     context_used |-> Field(d, "context_used"),
     model_name |-> Field(d, "model_name"),
     response_time |-> Field(d, "response_time"),
     cached_at |-> FromIsoFormat(Field(d, "cached_at")),
     metadata |-> Field(d, "metadata")]

\* cache_query_result: the ttl of the query record, "ttl=ttl or 1800"
QueryRecordTtl(ttl) == IF ttl = {} \/ ttl = {0} THEN {DefaultQueryTtl} ELSE ttl

\* cache_query_result: the ttl of the retrieval record, "ttl=ttl or 1800"
RetrievalRecordTtl(ttl) == IF ttl = {} \/ ttl = {0} THEN {DefaultQueryTtl} ELSE ttl

\* cache_retrieval_result: "ttl=ttl or 3600"
RetrievalTtl(ttl) == IF ttl = {} \/ ttl = {0} THEN {DefaultRetrievalTtl} ELSE ttl

\* cache_retrieval_result, get_retrieval_result: the hash of the query alone
SimpleHash(query) == Sha256Hex(NormalizeQuery(query))

\* cache_query_result: the record stored under the retrieval key
RetrievalRecord(retrieved_chunks, context_used, query) ==
    << <<"chunks", retrieved_chunks>>, <<"context", context_used>>, <<"query", query>> >>

\* cache_retrieval_result: retrieval_data
RetrievalData(query, retrieved_chunks, retrieval_time) ==
    << <<"query", query>>, <<"chunks", retrieved_chunks>>,
       <<"retrieval_time", retrieval_time>>, <<"cached_at", IsoFormat(now)>> >>

\* cache_query_result on the map c and the counters st: the return value, the state
\* it leaves, the keys it evicted and whether a put is still in the eviction loop
CacheQueryResultOutcome(c, st, query, response, retrieved_chunks, context_used, model_name, ttl) ==
    LET query_hash == get_query_hash(query, model_name, context_used, {})
        cache_entry == [query_hash |-> query_hash, original_query |-> query,
                        response |-> response, retrieved_chunks |-> retrieved_chunks,
                        context_used |-> context_used, model_name |-> model_name,
                        response_time |-> 1, cached_at |-> now, metadata |-> <<>>]
    IN CHOOSE r \in
          {IF ~success.ok
           THEN success
           ELSE [PutOutcome(success.cache, success.stats, RetrievalKey(query_hash),
                            RetrievalRecord(retrieved_chunks, context_used, query),
                            RetrievalRecordTtl(ttl))
                    EXCEPT !.ok = TRUE, !.evicted = success.evicted \o @]
              : success \in {PutOutcome(c, st, QueryKey(query_hash), ToDict(cache_entry),
                                        QueryRecordTtl(ttl))}} : TRUE

\* get_query_result: the entry it returns and the state it leaves
GetQueryResultOutcome(c, st, query, model_name, context, extra_params) ==
    LET query_hash == get_query_hash(query, model_name, context, extra_params)
        got == GetOutcome(c, st, QueryKey(query_hash))
    IN [ret |-> {FromDict(cached_data) : cached_data \in {d \in got.ret : d # <<>>}},
        cache |-> got.cache, stats |-> got.stats]

\* cache_retrieval_result
CacheRetrievalResultOutcome(c, st, query, retrieved_chunks, ttl) ==
    PutOutcome(c, st, RetrievalKey(SimpleHash(query)),
               RetrievalData(query, retrieved_chunks, 1), RetrievalTtl(ttl))

\* get_retrieval_result
GetRetrievalResultOutcome(c, st, query) ==
    GetOutcome(c, st, RetrievalKey(SimpleHash(query)))

\* CacheService.delete(key) on the map c and the counters st
DeleteOutcome(c, st, k) ==
    IF k \in KeysOf(c)
    THEN [ok |-> TRUE, cache |-> RemoveKey(c, k),
          stats |-> [st EXCEPT !.total_size = @ - EntryOf(c, k).size,
                               !.entry_count = @ - 1]]
    ELSE [ok |-> FALSE, cache |-> c, stats |-> st]

\* invalidate_query
InvalidateQueryOutcome(c, st, query, model_name) ==
    LET query_hash == get_query_hash(query, model_name, <<>>, {})
        query_deleted == DeleteOutcome(c, st, QueryKey(query_hash))
        retrieval_deleted == DeleteOutcome(query_deleted.cache, query_deleted.stats,
                                           RetrievalKey(query_hash))
    IN [ok |-> query_deleted.ok \/ retrieval_deleted.ok,
        cache |-> retrieval_deleted.cache, stats |-> retrieval_deleted.stats]

\* history: the recorded calls whose query key is still in the map c
Kept(c, S) ==
    {a \in S : QueryKey(get_query_hash(a.query, a.model_name, a.context_used, {}))
                  \in KeysOf(c)}

\* history: the recorded calls other than those for this query, model and context
Others(S, query, model_name, context_used) ==
    {a \in S : ~(/\ NormalizeQuery(a.query) = NormalizeQuery(query)
                 /\ a.model_name = model_name
                 /\ a.context_used = context_used)}

\* cache_query_result(query, response, retrieved_chunks, context_used, model_name,
\* response_time, metadata, ttl)
CacheQueryResult(query, response, retrieved_chunks, context_used, model_name, ttl) ==
    /\ phase = "ready"
    /\ query_calls < MaxQueryCalls
    /\ \E r \in {CacheQueryResultOutcome(cache, stats, query, response, retrieved_chunks,
                                          context_used, model_name, ttl)} :
          /\ ~r.spin
          /\ cache' = r.cache
          /\ stats' = r.stats
          /\ cached' = Kept(r.cache,
                            IF r.ok
                            THEN Others(cached, query, model_name, context_used)
                                 \cup {[query |-> query, response |-> response,
                                        retrieved_chunks |-> retrieved_chunks,
                                        context_used |-> context_used,
                                        model_name |-> model_name,
                                        ttl |-> QueryRecordTtl(ttl), at |-> now]}
                            ELSE cached)
    /\ query_calls' = query_calls + 1
    /\ UNCHANGED <<phase, config, now, hist, recency, hash_calls, query_lock, service, singletons>>

\* get_query_result(query, model_name, context, extra_params)
GetQueryResult(query, model_name, context, extra_params) ==
    /\ phase = "ready"
    /\ query_calls < MaxQueryCalls
    /\ \E r \in {GetQueryResultOutcome(cache, stats, query, model_name, context, extra_params)} :
       /\ cache' = r.cache
       /\ stats' = r.stats
       /\ cached' = Kept(r.cache, cached)
    /\ query_calls' = query_calls + 1
    /\ UNCHANGED <<phase, config, now, hist, recency, hash_calls, query_lock, service, singletons>>

\* cache_retrieval_result(query, retrieved_chunks, retrieval_time, ttl)
CacheRetrievalResult(query, retrieved_chunks, ttl) ==
    /\ phase = "ready"
    /\ query_calls < MaxQueryCalls
    /\ \E r \in {CacheRetrievalResultOutcome(cache, stats, query, retrieved_chunks, ttl)} :
       /\ ~r.spin
       /\ cache' = r.cache
       /\ stats' = r.stats
       /\ cached' = Kept(r.cache, cached)
    /\ query_calls' = query_calls + 1
    /\ UNCHANGED <<phase, config, now, hist, recency, hash_calls, query_lock, service, singletons>>

\* get_retrieval_result(query)
GetRetrievalResult(query) ==
    /\ phase = "ready"
    /\ query_calls < MaxQueryCalls
    /\ \E r \in {GetRetrievalResultOutcome(cache, stats, query)} :
       /\ cache' = r.cache
       /\ stats' = r.stats
       /\ cached' = Kept(r.cache, cached)
    /\ query_calls' = query_calls + 1
    /\ UNCHANGED <<phase, config, now, hist, recency, hash_calls, query_lock, service, singletons>>

\* invalidate_query(query, model_name)
InvalidateQuery(query, model_name) ==
    /\ phase = "ready"
    /\ query_calls < MaxQueryCalls
    /\ \E r \in {InvalidateQueryOutcome(cache, stats, query, model_name)} :
       /\ cache' = r.cache
       /\ stats' = r.stats
       /\ cached' = Kept(r.cache,
                         {a \in cached : ~(/\ NormalizeQuery(a.query) = NormalizeQuery(query)
                                           /\ a.model_name = model_name)})
    /\ query_calls' = query_calls + 1
    /\ UNCHANGED <<phase, config, now, hist, recency, hash_calls, query_lock, service, singletons>>

\* one wake-up of cleanup_worker under the query cache: _cleanup_expired
Sweep ==
    /\ phase = "ready"
    /\ \E r \in {CleanupOutcome([cache |-> cache, stats |-> stats])} :
       /\ r.cache # cache
       /\ cache' = r.cache
       /\ stats' = r.stats
       /\ cached' = Kept(r.cache, cached)
    /\ UNCHANGED <<phase, config, now, hist, recency, hash_calls, query_calls, query_lock, service, singletons>>

\* the wall clock advances by ClockStep seconds
Elapse ==
    /\ now < MaxQueryTicks * ClockStep
    /\ now' = now + ClockStep
    /\ UNCHANGED <<phase, config, cache, stats, hist, recency>>
    /\ UNCHANGED apart

QueryNext ==
    \/ \E ms \in QueryMaxSizeArgs, mb \in QueryMaxMemoryMbArgs, sg \in CacheStrategy :
          Construct(ms, mb, sg, {})
    \/ \E query \in QueryTexts, answer \in Answers, context_used \in QueryContexts,
          model_name \in QueryModelNames, ttl \in QueryTtlArgs :
          CacheQueryResult(query, answer.response, answer.retrieved_chunks, context_used,
                           model_name, ttl)
    \/ \E query \in QueryTexts, model_name \in QueryModelNames, context \in QueryContexts,
          extra_params \in QueryExtraParams :
          GetQueryResult(query, model_name, context, extra_params)
    \/ \E query \in QueryTexts, retrieved_chunks \in ChunkLists, ttl \in QueryTtlArgs :
          CacheRetrievalResult(query, retrieved_chunks, ttl)
    \/ \E query \in QueryTexts : GetRetrievalResult(query)
    \/ \E query \in QueryTexts, model_name \in QueryModelNames :
          InvalidateQuery(query, model_name)
    \/ Sweep
    \/ Elapse

QuerySpec == Init /\ [][QueryNext]_<<vars, apart>>

\* ------------------------------------------------------------- two locks
\* One process from construction to shutdown, with a thread that calls QueryCache
\* (query_cache.py): every QueryCache operation runs under QueryCache._lock and
\* calls the engine, which takes its own lock.  Keys are those of QueryCache.
Queriers == {"querier"}
ThreadQueryTexts == {<<"a">>}
ThreadKeys == {RetrievalKey(SimpleHash(query)) : query \in ThreadQueryTexts}
ThreadValues == {<<"str">>}
ThreadMaxSizeArgs == {0, ServiceMaxSize}

\* a thread calls get_retrieval_result(query) and reaches "with self._lock"
QuerierCall(t) ==
    /\ pc["main"] \in {"ready", "join", "save_cache", "save_stats", "save_items"}
    /\ pc[t] = "idle"
    /\ calls < MaxCalls
    /\ pc' = [pc EXCEPT ![t] = "query_lock"]
    /\ UNCHANGED <<vars, hash_calls, cached, query_calls, query_lock, singletons,
                   persistence_path, lock, stop_cleanup, cache_data, file, last_writer,
                   calls, restarts>>

\* get_retrieval_result: "with self._lock" of QueryCache
QuerierEnter(t) ==
    /\ pc[t] = "query_lock"
    /\ query_lock = ""
    /\ query_lock' = t
    /\ pc' = [pc EXCEPT ![t] = "query_locked"]
    /\ UNCHANGED <<vars, hash_calls, cached, query_calls, singletons, persistence_path, lock,
                   stop_cleanup, cache_data, file, last_writer, calls, restarts>>

\* get_retrieval_result: self._cache.get(retrieval_key) reaches "with self._lock"
\* of the engine and enters
QuerierAcquire(t) ==
    /\ pc[t] = "query_locked"
    /\ lock = ""
    /\ lock' = t
    /\ pc' = [pc EXCEPT ![t] = "engine_locked"]
    /\ UNCHANGED <<vars, hash_calls, cached, query_calls, query_lock, singletons,
                   persistence_path, stop_cleanup, cache_data, file, last_writer, calls,
                   restarts>>

\* get_retrieval_result: the body of the engine's get, the release of the engine
\* lock, and the return, which releases the lock of QueryCache
QuerierGet(t, query) ==
    /\ pc[t] = "engine_locked"
    /\ \E k \in {RetrievalKey(SimpleHash(query))} :
       \E r \in {GetOutcome(cache, stats, k)} :
          /\ cache' = r.cache
          /\ stats' = r.stats
          /\ cache_data' = Interrupted(k \in KeysOf(cache) /\ (r.ret = {} \/ strategy = LRU))
    /\ lock' = ""
    /\ query_lock' = ""
    /\ pc' = [pc EXCEPT ![t] = "idle"]
    /\ calls' = calls + 1
    /\ UNCHANGED <<phase, config, now, hist, recency, hash_calls, cached, query_calls,
                   singletons, persistence_path, stop_cleanup, file, last_writer, restarts>>

ThreadNext ==
    \/ \E path \in PersistencePathArgs, ms \in ThreadMaxSizeArgs : StartService(path, ms)
    \/ LoadCache
    \/ CallerAcquire
    \/ \E k \in ThreadKeys, v \in ThreadValues, t \in TtlArgs : CallerPut(k, v, t)
    \/ \E k \in ThreadKeys : CallerGet(k)
    \/ \E t \in Queriers : QuerierCall(t)
    \/ \E t \in Queriers : QuerierEnter(t)
    \/ \E t \in Queriers : QuerierAcquire(t)
    \/ \E t \in Queriers, query \in ThreadQueryTexts : QuerierGet(t, query)
    \/ SweeperWake
    \/ SweeperExit
    \/ SweeperAcquire
    \/ SweeperCleanup
    \/ \E t \in Savers : SaveBegin(t)
    \/ \E t \in Savers : SaveStats(t)
    \/ \E t \in Savers : SaveItem(t)
    \/ \E t \in Savers : SaveWrite(t)
    \/ Shutdown
    \/ JoinReturns
    \/ JoinTimesOut
    \/ Tick

\* a thread that holds a lock goes on, whoever else is running
CallerBody ==
    \/ \E k \in ThreadKeys, v \in ThreadValues, t \in TtlArgs : CallerPut(k, v, t)
    \/ \E k \in ThreadKeys : CallerGet(k)

\* Scheduling: a running thread is not stopped for ever, the timed wait of the
\* cleanup thread returns, and a thread that waits for a lock which is free again
\* and again gets it.
ThreadFairness ==
    /\ WF_<<vars, apart>>(SweeperWake)
    /\ SF_<<vars, apart>>(SweeperAcquire)
    /\ WF_<<vars, apart>>(SweeperCleanup)
    /\ WF_<<vars, apart>>(SaveBegin("sweeper"))
    /\ WF_<<vars, apart>>(SaveStats("sweeper"))
    /\ WF_<<vars, apart>>(SaveItem("sweeper"))
    /\ WF_<<vars, apart>>(SaveWrite("sweeper"))
    /\ WF_<<vars, apart>>(CallerBody)
    /\ \A t \in Queriers :
          /\ SF_<<vars, apart>>(QuerierEnter(t))
          /\ SF_<<vars, apart>>(QuerierAcquire(t))
          /\ WF_<<vars, apart>>(\E query \in ThreadQueryTexts : QuerierGet(t, query))

ThreadSpec == Init /\ [][ThreadNext]_<<vars, apart>> /\ ThreadFairness

\* ------------------------------------------------------------ decorators
\* cache_middleware.py, cache_rag_query and cache_document_processing, on the
\* engine get_cache_service() constructs.  A cache key is the sequence of the
\* parts of its f-string.
RagQueryTexts == {"q1", "q2"}
DocumentIds == {"d1"}
RagQueryTtl == 3600
DocProcessingTtl == 7200
SingletonDefaultTtl == 3600

\* the public methods of CacheService
CacheServiceMethods ==
    {"get", "put", "delete", "clear", "get_stats", "get_memory_usage", "shutdown"}

\* str(x) and hash(s) within one process
Str(x) == [str |-> x]
PyHash(s) == [hash |-> s]

\* cache_rag_query: f"{key_prefix}:{hash(str(query_text))}"
RagQueryKey(key_prefix, query_text) == <<key_prefix, ":", PyHash(Str(query_text))>>

\* cache_document_processing: f"{key_prefix}:{doc_id}"
DocProcessKey(key_prefix, doc_id) == <<key_prefix, ":", Str(doc_id)>>

DecoratorKeys ==
    {RagQueryKey("rag_query", q) : q \in RagQueryTexts}
        \cup {DocProcessKey("doc_process", d) : d \in DocumentIds}

\* wrapper(*args, **kwargs) of both decorators, on the map c and the counters st,
\* for the key cache_key and a wrapped function that returns result: what the
\* wrapper returns, whether it raised, whether func ran, and the state it leaves.
\* "cache_service.set(...)" looks up an attribute CacheService does not have.
WrapperOutcome(c, st, cache_key, result, ttl) ==
    CHOOSE w \in
       {IF cached_result.ret # {}
        THEN [ret |-> cached_result.ret, raised |-> FALSE, ran |-> FALSE,
              cache |-> cached_result.cache, stats |-> cached_result.stats]
        ELSE IF "set" \notin CacheServiceMethods
        THEN [ret |-> {}, raised |-> TRUE, ran |-> TRUE,
              cache |-> cached_result.cache, stats |-> cached_result.stats]
        ELSE [ret |-> {result}, raised |-> FALSE, ran |-> TRUE,
              cache |-> PutOutcome(cached_result.cache, cached_result.stats,
                                   cache_key, result, {ttl}).cache,
              stats |-> PutOutcome(cached_result.cache, cached_result.stats,
                                   cache_key, result, {ttl}).stats]
          : cached_result \in {GetOutcome(c, st, cache_key)}} : TRUE

\* get_cache_service(): the engine of the decorators
GetCacheService ==
    /\ phase = "new"
    /\ max_size' = ServiceMaxSize
    /\ max_memory' = ServiceMaxMemoryMb * BytesPerMB
    /\ strategy' = LRU
    /\ default_ttl' = {SingletonDefaultTtl}
    /\ cache' = <<>>
    /\ stats' = NewStats
    /\ phase' = "ready"
    /\ UNCHANGED <<now, hist, recency>>
    /\ UNCHANGED apart

\* the engine and the history after a wrapper call for cache_key with outcome w
WrapperReturns(w, cache_key) ==
    /\ cache' = w.cache
    /\ stats' = w.stats
    /\ hist' = [gets |-> hist.gets + 1,
                hits |-> hist.hits + (IF ~w.ran THEN 1 ELSE 0),
                misses |-> hist.misses + (IF w.ran THEN 1 ELSE 0)]
    /\ recency' = IF ~w.ran THEN Append(Without(recency, cache_key), cache_key)
                            ELSE Present(recency, w.cache)

\* a function decorated with cache_rag_query() is called with query and would
\* return result
CacheRagQuery(query, result) ==
    /\ phase = "ready"
    /\ stats.total_requests < MaxGets
    /\ \E cache_key \in {RagQueryKey("rag_query", query)} :
       \E w \in {WrapperOutcome(cache, stats, cache_key, result, RagQueryTtl)} :
          WrapperReturns(w, cache_key)
    /\ UNCHANGED <<phase, config, now>>
    /\ UNCHANGED apart

\* a function decorated with cache_document_processing() is called with
\* document_id and would return result
CacheDocumentProcessing(document_id, result) ==
    /\ phase = "ready"
    /\ stats.total_requests < MaxGets
    /\ \E cache_key \in {DocProcessKey("doc_process", document_id)} :
       \E w \in {WrapperOutcome(cache, stats, cache_key, result, DocProcessingTtl)} :
          WrapperReturns(w, cache_key)
    /\ UNCHANGED <<phase, config, now>>
    /\ UNCHANGED apart

MiddlewareNext ==
    \/ GetCacheService
    \/ \E query \in RagQueryTexts, result \in Values : CacheRagQuery(query, result)
    \/ \E document_id \in DocumentIds, result \in Values :
          CacheDocumentProcessing(document_id, result)
    \/ \E k \in DecoratorKeys, v \in Values, t \in TtlArgs : Put(k, v, t)
    \/ \E k \in DecoratorKeys : Delete(k)
    \/ CleanupExpired
    \/ Tick

MiddlewareSpec == Init /\ [][MiddlewareNext]_<<vars, apart>>

\* ------------------------------------------------------------ singletons
\* cache_service.py, get_cache_service, and query_cache.py, get_query_cache:
\* threads that make their first calls at the same time.  QueryCache() calls
\* get_cache_service() while its caller holds _query_cache_lock.
IsNone(x) == x = {}

\* the thread t moves to the place pc
GoTo(t, place) == getter' = [getter EXCEPT ![t].pc = place]

\* a thread calls get_cache_service()
CallGetCacheService(t) ==
    /\ getter[t].pc = "idle"
    /\ getter' = [getter EXCEPT ![t].pc = "check", ![t].op = "get_cache_service"]
    /\ UNCHANGED <<vars, query_cache, service, cache_service_instance, cache_service_lock,
                   query_cache_instance, query_cache_lock, instances, query_caches>>

\* get_cache_service: the first "if _cache_service_instance is None", without the lock
FirstCheck(t) ==
    /\ getter[t].pc = "check"
    /\ GoTo(t, IF IsNone(cache_service_instance) THEN "lock" ELSE "return")
    /\ UNCHANGED <<vars, query_cache, service, cache_service_instance, cache_service_lock,
                   query_cache_instance, query_cache_lock, instances, query_caches>>

\* get_cache_service: "with _cache_service_lock"
AcquireServiceLock(t) ==
    /\ getter[t].pc = "lock"
    /\ cache_service_lock = ""
    /\ cache_service_lock' = t
    /\ GoTo(t, "recheck")
    /\ UNCHANGED <<vars, query_cache, service, cache_service_instance,
                   query_cache_instance, query_cache_lock, instances, query_caches>>

\* SecondCheck that constructs without looking at the global again
SecondCheckSkipped(t) ==
    /\ getter[t].pc = "recheck"
    /\ instances' = Append(instances, "constructing")
    /\ getter' = [getter EXCEPT ![t].pc = "init", ![t].new = {Len(instances) + 1}]
    /\ UNCHANGED <<vars, query_cache, service, cache_service_instance, cache_service_lock,
                   query_cache_instance, query_cache_lock, query_caches>>

\* get_cache_service: the second check, under the lock; when it finds None,
\* CacheService.__init__ begins and starts the cleanup thread of the new object
SecondCheck(t) ==
    /\ getter[t].pc = "recheck"
    /\ IF IsNone(cache_service_instance)
       THEN /\ instances' = Append(instances, "constructing")
            /\ getter' = [getter EXCEPT ![t].pc = "init", ![t].new = {Len(instances) + 1}]
       ELSE /\ GoTo(t, "release")
            /\ UNCHANGED instances
    /\ UNCHANGED <<vars, query_cache, service, cache_service_instance, cache_service_lock,
                   query_cache_instance, query_cache_lock, query_caches>>

\* CacheService.__init__ returns
FinishInit(t) ==
    /\ getter[t].pc = "init"
    /\ \E i \in getter[t].new : instances' = [instances EXCEPT ![i] = "constructed"]
    /\ GoTo(t, "assign")
    /\ UNCHANGED <<vars, query_cache, service, cache_service_instance, cache_service_lock,
                   query_cache_instance, query_cache_lock, query_caches>>

\* get_cache_service: "_cache_service_instance = CacheService(...)", the assignment
AssignService(t) ==
    /\ getter[t].pc = "assign"
    /\ cache_service_instance' = getter[t].new
    /\ getter' = [getter EXCEPT ![t].pc = "release", ![t].new = {}]
    /\ UNCHANGED <<vars, query_cache, service, cache_service_lock,
                   query_cache_instance, query_cache_lock, instances, query_caches>>

\* get_cache_service: the end of the with block
ReleaseServiceLock(t) ==
    /\ getter[t].pc = "release"
    /\ cache_service_lock' = ""
    /\ GoTo(t, "return")
    /\ UNCHANGED <<vars, query_cache, service, cache_service_instance,
                   query_cache_instance, query_cache_lock, instances, query_caches>>

\* get_cache_service: "return _cache_service_instance", to the caller or to
\* QueryCache.__init__
ReturnService(t) ==
    /\ getter[t].pc = "return"
    /\ getter' = [getter EXCEPT ![t] =
           IF @.op = "get_cache_service"
           THEN [@ EXCEPT !.pc = "done", !.ret = cache_service_instance]
           ELSE [@ EXCEPT !.pc = "query_init", !.cache = cache_service_instance]]
    /\ UNCHANGED <<vars, query_cache, service, cache_service_instance, cache_service_lock,
                   query_cache_instance, query_cache_lock, instances, query_caches>>

\* a thread calls get_query_cache()
CallGetQueryCache(t) ==
    /\ getter[t].pc = "idle"
    /\ getter' = [getter EXCEPT ![t].pc = "query_check", ![t].op = "get_query_cache"]
    /\ UNCHANGED <<vars, query_cache, service, cache_service_instance, cache_service_lock,
                   query_cache_instance, query_cache_lock, instances, query_caches>>

\* get_query_cache: the first "if _query_cache_instance is None", without the lock
QueryFirstCheck(t) ==
    /\ getter[t].pc = "query_check"
    /\ GoTo(t, IF IsNone(query_cache_instance) THEN "query_lock" ELSE "query_return")
    /\ UNCHANGED <<vars, query_cache, service, cache_service_instance, cache_service_lock,
                   query_cache_instance, query_cache_lock, instances, query_caches>>

\* get_query_cache: "with _query_cache_lock"
AcquireQueryLock(t) ==
    /\ getter[t].pc = "query_lock"
    /\ query_cache_lock = ""
    /\ query_cache_lock' = t
    /\ GoTo(t, "query_recheck")
    /\ UNCHANGED <<vars, query_cache, service, cache_service_instance, cache_service_lock,
                   query_cache_instance, instances, query_caches>>

\* get_query_cache: the second check, under the lock; when it finds None,
\* QueryCache.__init__ begins with "cache_service or get_cache_service()"
QuerySecondCheck(t) ==
    /\ getter[t].pc = "query_recheck"
    /\ GoTo(t, IF IsNone(query_cache_instance) THEN "check" ELSE "query_release")
    /\ UNCHANGED <<vars, query_cache, service, cache_service_instance, cache_service_lock,
                   query_cache_instance, query_cache_lock, instances, query_caches>>

\* QueryCache.__init__ returns: the object holds the engine it was given
QueryInit(t) ==
    /\ getter[t].pc = "query_init"
    /\ query_caches' = Append(query_caches, [cache |-> getter[t].cache])
    /\ getter' = [getter EXCEPT ![t].pc = "query_assign", ![t].new = {Len(query_caches) + 1},
                                ![t].cache = {}]
    /\ UNCHANGED <<vars, query_cache, service, cache_service_instance, cache_service_lock,
                   query_cache_instance, query_cache_lock, instances>>

\* get_query_cache: "_query_cache_instance = QueryCache()", the assignment
AssignQueryCache(t) ==
    /\ getter[t].pc = "query_assign"
    /\ query_cache_instance' = getter[t].new
    /\ getter' = [getter EXCEPT ![t].pc = "query_release", ![t].new = {}]
    /\ UNCHANGED <<vars, query_cache, service, cache_service_instance, cache_service_lock,
                   query_cache_lock, instances, query_caches>>

\* get_query_cache: the end of the with block
ReleaseQueryLock(t) ==
    /\ getter[t].pc = "query_release"
    /\ query_cache_lock' = ""
    /\ GoTo(t, "query_return")
    /\ UNCHANGED <<vars, query_cache, service, cache_service_instance, cache_service_lock,
                   query_cache_instance, instances, query_caches>>

\* get_query_cache: "return _query_cache_instance"
ReturnQueryCache(t) ==
    /\ getter[t].pc = "query_return"
    /\ getter' = [getter EXCEPT ![t].pc = "done", ![t].ret = query_cache_instance]
    /\ UNCHANGED <<vars, query_cache, service, cache_service_instance, cache_service_lock,
                   query_cache_instance, query_cache_lock, instances, query_caches>>

SingletonNext ==
    \/ \E t \in Getters : CallGetCacheService(t)
    \/ \E t \in Getters : FirstCheck(t)
    \/ \E t \in Getters : AcquireServiceLock(t)
    \/ \E t \in Getters : SecondCheck(t)
    \/ \E t \in Getters : FinishInit(t)
    \/ \E t \in Getters : AssignService(t)
    \/ \E t \in Getters : ReleaseServiceLock(t)
    \/ \E t \in Getters : ReturnService(t)
    \/ \E t \in Getters : CallGetQueryCache(t)
    \/ \E t \in Getters : QueryFirstCheck(t)
    \/ \E t \in Getters : AcquireQueryLock(t)
    \/ \E t \in Getters : QuerySecondCheck(t)
    \/ \E t \in Getters : QueryInit(t)
    \/ \E t \in Getters : AssignQueryCache(t)
    \/ \E t \in Getters : ReleaseQueryLock(t)
    \/ \E t \in Getters : ReturnQueryCache(t)

SingletonSpec == Init /\ [][SingletonNext]_<<vars, apart>>

\* ------------------------------------------------------------------ claims
Ready == phase = "ready"

SizesOf(c) == [i \in 1..Len(c) |-> c[i].size]

KeySeq(c) == [i \in 1..Len(c) |-> c[i].key]

\* C1: on an engine with max_size >= 1, whatever the policy and the contents, a put
\* of a value whose size is at most max_memory returns True and stores the key, and
\* a get issued right after it, before the entry expires, returns that value.
RoundTrip ==
    (Ready /\ max_size >= 1) =>
        \A k \in Keys, v \in Values, t \in TtlArgs :
            CalculateSize(v) <= max_memory =>
                LET r == PutOutcome(cache, stats, k, v, t) IN
                /\ r.ok
                /\ ~r.spin
                /\ k \in KeysOf(r.cache)
                /\ ~IsExpired(EntryOf(r.cache, k), now) =>
                       GetOutcome(r.cache, r.stats, k).ret = {v}

\* C1 witness: a put has just stored a fresh entry in an engine that was full (it
\* evicted another entry to do so) and a get of its key returns the stored value.
RoundTripWitness ==
    /\ Ready
    /\ Len(cache) = max_size
    /\ stats.eviction_count = 1
    /\ now > 0
    /\ LET e == cache[Len(cache)] IN
       /\ e.created_at = now
       /\ e.access_count = 0
       /\ e.value = <<1, 1>>
       /\ GetOutcome(cache, stats, e.key).ret = {<<1, 1>>}

\* C2: a put of a value whose size exceeds max_memory returns False and changes
\* nothing: the map, its order, every counter; nothing is evicted and an entry
\* under the same key stays as it was.
OversizeRejected ==
    Ready =>
        \A k \in Keys, v \in Values, t \in TtlArgs :
            CalculateSize(v) > max_memory =>
                LET r == PutOutcome(cache, stats, k, v, t) IN
                /\ ~r.ok
                /\ ~r.spin
                /\ r.cache = cache
                /\ r.stats = stats
                /\ r.evicted = <<>>

\* C2 witness: a full engine with a positive byte budget in which a put of an
\* oversize value under a stored key is rejected; a rejected put is a step that
\* leaves the state as it is, so this is also the state after it.
OversizeRejectedWitness ==
    /\ Ready
    /\ max_memory > 0
    /\ Len(cache) = 2
    /\ \E v \in Values :
          /\ CalculateSize(v) > max_memory
          /\ ~PutOutcome(cache, stats, cache[1].key, v, {}).ok
          /\ PutOutcome(cache, stats, cache[1].key, v, {}).cache = cache

\* C3: for a stored entry with a positive ttl t, a get is a hit while the time since
\* its insertion is below t; once that time exceeds t, a get is a miss that adds
\* exactly 1 to miss_count and removes the entry, so the next get misses as well.
TtlExpiry ==
    Ready =>
        \A k \in KeysOf(cache) :
            LET e == EntryOf(cache, k)
                elapsed == now - e.created_at
                r == GetOutcome(cache, stats, k)
            IN \A t \in e.ttl :
                  t > 0 =>
                    /\ elapsed < t => r.ret = {e.value}
                    /\ elapsed > t =>
                          /\ r.ret = {}
                          /\ r.stats.miss_count = stats.miss_count + 1
                          /\ k \notin KeysOf(r.cache)
                          /\ Len(r.cache) = Len(cache) - 1
                          /\ GetOutcome(r.cache, r.stats, k).ret = {}

\* C3 witness: with no default ttl, so that only a positive ttl given to put makes
\* an entry expire, one get hit and a later get found its entry expired and removed
\* it (the removed entry's bytes are still in total_size, which nothing else brings
\* about).
TtlExpiryWitness ==
    /\ Ready
    /\ default_ttl = {}
    /\ now >= 2
    /\ hist.hits = 1
    /\ hist.misses = 1
    /\ stats.miss_count = 1
    /\ stats.total_size > SeqSum(SizesOf(cache))

\* C4: under LRU the keys a put evicts are the stored keys whose most recent put or
\* successful get is the oldest, oldest first, and a hit makes its key the most
\* recent one.  (max_size = 2, put A, put B, get A, put C evicts B and only B.)
LruOrder ==
    (Ready /\ strategy = LRU) =>
        /\ KeySeq(cache) = recency
        /\ \A k \in Keys, v \in Values, t \in TtlArgs :
              LET r == PutOutcome(cache, stats, k, v, t)
                  older == Without(recency, k)
              IN /\ Len(r.evicted) <= Len(older)
                 /\ r.evicted = SubSeq(older, 1, Len(r.evicted))
                 /\ r.stats.eviction_count = stats.eviction_count + Len(r.evicted)

\* C4 witness: the LRU scenario with max_size = 2.  A was read once and is still
\* stored, C came last, one entry was evicted and it was B: a get of B misses and
\* gets of A and C hit.
LruOrderWitness ==
    /\ Ready
    /\ strategy = LRU
    /\ max_size = 2
    /\ KeySeq(cache) = <<"A", "C">>
    /\ cache[1].access_count = 1
    /\ cache[2].access_count = 0
    /\ stats.eviction_count = 1
    /\ hist.gets = 1
    /\ GetOutcome(cache, stats, "B").ret = {}
    /\ GetOutcome(cache, stats, "A").ret # {}
    /\ GetOutcome(cache, stats, "C").ret # {}

\* C5: an engine constructed with max_size >= 1 never holds more than max_size
\* entries, whatever puts, gets, deletes, clears and sweeps were made.
EntryCountBound ==
    (phase # "new" /\ max_size >= 1) => Len(cache) <= max_size

\* C5 witness: a full engine that had to evict to stay within max_size.
EntryCountBoundWitness ==
    /\ Ready
    /\ max_size = 2
    /\ Len(cache) = max_size
    /\ stats.eviction_count >= 1

\* a configuration with positive limits and no negative default ttl
ValidConfig ==
    /\ max_size >= 1
    /\ max_memory >= 1
    /\ \A t \in default_ttl : t >= 0

\* C6: in an engine with a valid configuration, total_size is the sum of the sizes
\* of the stored entries.
ByteAccounting ==
    (phase # "new" /\ ValidConfig) => stats.total_size = SeqSum(SizesOf(cache))

\* C7: in an engine with a valid configuration, total_size, and with it the
\* reported usage, never exceeds the byte budget.
ByteBudgetBound ==
    (phase # "new" /\ ValidConfig) =>
        /\ stats.total_size <= max_memory
        /\ UsagePercentage <= 100

\* C8: total_requests is the number of gets made, hit_count the number of them that
\* returned a value, miss_count the number that returned None, and hit_rate is
\* hit_count / total_requests, or 0 when no get was made.
StatsMatchHistory ==
    /\ stats.total_requests = hist.gets
    /\ stats.hit_count = hist.hits
    /\ stats.miss_count = hist.misses
    /\ hist.gets = 0 => HitRate(stats).num = 0
    /\ hist.gets > 0 => HitRate(stats).num * hist.gets = hist.hits * HitRate(stats).den

\* C8 witness: gets were made, one of which hit and one of which found an expired
\* entry.
StatsMatchHistoryWitness ==
    /\ hist.gets = MaxGets
    /\ hist.hits >= 1
    /\ hist.misses >= 1
    /\ HitRate(stats).num >= 1
    /\ HitRate(stats).den = MaxGets
    /\ stats.total_size > SeqSum(SizesOf(cache))

\* C9: every put returns: the eviction loop is never running on an empty cache.
PutTerminates ==
    ~(phase = "ensure_capacity" /\ cache = <<>>)

\* C10: no engine is constructed with max_size <= 0, a byte budget <= 0 or a negative
\* default ttl.
FailFastConstruction ==
    phase # "new" => ValidConfig

\* an entry with a ttl whose age at clock value t exceeds it
PastTtl(e, t) == \E x \in e.ttl : t - e.created_at > x

\* C14: one sweep removes exactly the entries whose age exceeds their ttl: none of
\* them remains, the others keep their value and position, and eviction_count grows,
\* entry_count shrinks and total_size shrinks by the number and the sizes of the
\* removed entries; the other counters stay.
SweepPurge ==
    Ready =>
        LET r == CleanupOutcome([cache |-> cache, stats |-> stats])
            live == SelectSeq(cache, LAMBDA e : ~PastTtl(e, now))
            removed == Len(cache) - Len(live)
        IN /\ r.cache = live
           /\ \A i \in 1..Len(r.cache) : ~PastTtl(r.cache[i], now)
           /\ r.stats = [stats EXCEPT
                 !.eviction_count = @ + removed,
                 !.entry_count = @ - removed,
                 !.total_size = @ - (SeqSum(SizesOf(cache)) - SeqSum(SizesOf(live)))]

\* C14 witness: an expired entry stored before a live one; the sweep of this state
\* removes the expired entry alone and leaves the live one in place.
SweepPurgeWitness ==
    /\ Ready
    /\ default_ttl = {}
    /\ Len(cache) = 2
    /\ PastTtl(cache[1], now)
    /\ ~PastTtl(cache[2], now)
    /\ LET r == CleanupOutcome([cache |-> cache, stats |-> stats]) IN
       /\ r.cache = <<cache[2]>>
       /\ r.stats.eviction_count = stats.eviction_count + 1
       /\ r.stats.total_size = stats.total_size - cache[1].size

\* the text of a query between its first and its last character that is not a space
Trimmed(q) ==
    LET inked == {i \in 1..Len(q) : q[i] # " "} IN
    IF inked = {} THEN <<>>
    ELSE SubSeq(q, CHOOSE i \in inked : \A j \in inked : i <= j,
                   CHOOSE i \in inked : \A j \in inked : i >= j)

\* two queries that differ only in letter case and in surrounding spaces
SameQuery(p, q) ==
    /\ Len(Trimmed(p)) = Len(Trimmed(q))
    /\ \A i \in 1..Len(Trimmed(p)) :
          \/ Trimmed(p)[i] = Trimmed(q)[i]
          \/ {Trimmed(p)[i], Trimmed(q)[i]} = {"a", "A"}

\* the key/value pairs of a dict, whatever their order
PairsOf(d) == {d[i] : i \in 1..Len(d)}

\* two extra_params arguments that are equal: both None, or dicts with the same pairs
SameParams(p, q) ==
    \/ p = {} /\ q = {}
    \/ p # {} /\ q # {} /\ \A d \in p, e \in q : PairsOf(d) = PairsOf(e)

\* C19: two get_query_hash calls whose queries are equal after trimming and
\* lowercasing, whose model and context are equal and whose extra parameters are
\* equal whatever their key order return the same hash, whatever the order of calls.
HashDeterminism ==
    \A i, j \in 1..Len(hash_calls) :
        LET a == hash_calls[i]
            b == hash_calls[j]
        IN (/\ SameQuery(a.query, b.query)
            /\ a.model_name = b.model_name
            /\ a.context = b.context
            /\ SameParams(a.extra_params, b.extra_params)) => a.hash = b.hash

\* C19 witness: two calls with queries " a" and "A" and the same two parameters
\* given in opposite orders have returned one hash.
HashDeterminismWitness ==
    /\ Len(hash_calls) = 2
    /\ hash_calls[1].query = <<" ", "a">>
    /\ hash_calls[2].query = <<"A">>
    /\ hash_calls[1].model_name = <<"b">>
    /\ hash_calls[2].model_name = <<"b">>
    /\ hash_calls[1].context = <<"c">>
    /\ hash_calls[2].context = <<"c">>
    /\ hash_calls[1].extra_params = {<< <<"x", "1">>, <<"y", "2">> >>}
    /\ hash_calls[2].extra_params = {<< <<"y", "2">>, <<"x", "1">> >>}
    /\ hash_calls[1].hash = hash_calls[2].hash

\* an extra_params argument that carries no parameter: None or the empty dict
NoParams(p) == p = {} \/ p = {<<>>}

\* C20: two get_query_hash calls that differ in the normalized query, the model
\* name, the context or the extra parameters return different hashes (None and the
\* empty dict are taken as the same extra parameters).
HashSeparation ==
    \A i, j \in 1..Len(hash_calls) :
        LET a == hash_calls[i]
            b == hash_calls[j]
        IN (\/ ~SameQuery(a.query, b.query)
            \/ a.model_name # b.model_name
            \/ a.context # b.context
            \/ ~(\/ SameParams(a.extra_params, b.extra_params)
                 \/ NoParams(a.extra_params) /\ NoParams(b.extra_params)))
           => a.hash # b.hash

\* C11: every step that changes the entry map (its order included) or the stats
\* counters of a running engine is taken by the thread that holds the engine's
\* lock, the constructor's restore of persisted entries included.
LockDiscipline ==
    [][(restarts' = restarts /\ (cache' # cache \/ stats' # stats))
       => (lock \in Threads /\ pc'[lock] # pc[lock])]_<<vars, apart>>

\* C12: while the sweeper iterates over the entries for a save it holds the lock,
\* so no put, delete or get of another thread changes the entry map under the
\* iteration.
SnapshotUnderLock ==
    pc["sweeper"] = "save_items" /\ cache_data["sweeper"].todo > 0
        => ~cache_data["sweeper"].dirty

\* C13: when shutdown() has returned the sweeper thread has terminated and, with a
\* persistence path on a writable file, the last write to the snapshot file is
\* shutdown's own.
ShutdownProtocol ==
    pc["main"] = "closed" =>
        /\ pc["sweeper"] = "terminated"
        /\ (persistence_path /\ file.kind # "unreadable") => last_writer = "main"

\* a saving thread has collected its cache_data and is about to write a file it can open
AboutToWrite(t) ==
    /\ pc[t] = "save_items"
    /\ cache_data[t].todo = 0
    /\ file.kind # "unreadable"

\* the entries of cache_data that have not expired by now
LiveData(data) == SelectSeq(data.entries, LAMBDA d : ~PastTtl([ttl |-> d.ttl, created_at |-> d.created_at.iso], now))

\* the save that thread t is about to write, loaded by a fresh engine now: every
\* saved entry that has not expired is returned by get with the value it was saved
\* with, and entry_count is their number
RoundTripOf(t) ==
    LET f == JsonDump(cache_data[t], file)
        r == LoadOutcome(f, <<>>, NewStats, now)
        live == LiveData(cache_data[t])
    IN /\ f.kind = "snapshot"
       /\ r.stats.entry_count = Len(live)
       /\ \A i \in 1..Len(live) :
             GetOutcome(r.cache, r.stats, live[i].key).ret = {live[i].value}

\* C15 as stated: a save of entries whose values json can encode, loaded by a fresh
\* engine, gives back every saved key with an identical value, and entry_count
\* entries.
PersistRoundTrip ==
    \A t \in Savers :
        (/\ AboutToWrite(t)
         /\ \A i \in 1..Len(cache_data[t].entries) :
               Serializable(cache_data[t].entries[i].value)) => RoundTripOf(t)

\* a value made of strings and lists only, which json.load gives back as it was
JsonFaithful(v) == \A i \in 1..Len(v) : v[i] \in {"str", "list"}

\* C15 amended: a save of entries whose values are made of what json gives back
\* unchanged (strings, lists; no tuples), loaded by a fresh engine, gives
\* back every saved key with an identical value, and entry_count entries.
PersistRoundTripFaithful ==
    \A t \in Savers :
        (/\ AboutToWrite(t)
         /\ \A i \in 1..Len(cache_data[t].entries) :
               JsonFaithful(cache_data[t].entries[i].value)) => RoundTripOf(t)

\* C15 witness: a restarted engine has loaded the two entries of the snapshot the
\* first process wrote, with the values in the file, and counts two entries.
PersistRoundTripWitness ==
    /\ restarts = 1
    /\ pc["main"] = "ready"
    /\ file.kind = "snapshot"
    /\ Len(file.entries) = 2
    /\ Len(cache) = 2
    /\ stats.entry_count = 2
    /\ \A i \in 1..2 :
          /\ cache[i].key = file.entries[i].key
          /\ cache[i].value = file.entries[i].value
          /\ JsonFaithful(cache[i].value)

\* C16: whatever snapshot is on disk, a load at the current clock inserts no entry
\* whose age, counted from the created_at it was first stored with, exceeds its
\* ttl; every entry it inserts keeps the created_at and ttl of the file, and a get
\* on the loaded engine returns no value whose age exceeds its ttl.
NoResurrection ==
    file.kind = "snapshot" =>
        LET r == LoadOutcome(file, <<>>, NewStats, now) IN
        /\ \A i \in 1..Len(r.cache) :
              /\ ~PastTtl(r.cache[i], now)
              /\ \E j \in 1..Len(file.entries) :
                    /\ file.entries[j].key = r.cache[i].key
                    /\ file.entries[j].created_at.iso = r.cache[i].created_at
                    /\ file.entries[j].ttl = r.cache[i].ttl
        /\ \A j \in 1..Len(file.entries) :
              PastTtl([ttl |-> file.entries[j].ttl,
                       created_at |-> file.entries[j].created_at.iso], now)
                  => GetOutcome(r.cache, r.stats, file.entries[j].key).ret = {}

\* C16 witness: a restarted engine has loaded a snapshot that holds an entry saved
\* before its ttl ran out and expired by the time of the load, and does not hold it.
NoResurrectionWitness ==
    /\ restarts = 1
    /\ pc["main"] = "ready"
    /\ calls = 1
    /\ file.kind = "snapshot"
    /\ Len(file.entries) = 1
    /\ file.entries[1].ttl = {1}
    /\ now - file.entries[1].created_at.iso > 1
    /\ cache = <<>>
    /\ stats.entry_count = 0

\* C17: when the constructor reaches _load_cache and the file is missing, cannot
\* be opened or is not a JSON document, the load does not raise, the engine has no
\* entry, entry_count 0 and total_size 0, and every put and get on it does what it
\* does on a fresh engine.
LoadFailureNonFatal ==
    (pc["main"] = "load_cache" /\ file.kind \in {"missing", "unreadable", "malformed"}) =>
        LET r == LoadOutcome(file, cache, stats, now) IN
        /\ ~r.raised
        /\ r.cache = <<>>
        /\ r.stats.entry_count = 0
        /\ r.stats.total_size = 0
        /\ \A k \in ServiceKeys :
              /\ GetOutcome(r.cache, r.stats, k) = GetOutcome(<<>>, NewStats, k)
              /\ \A v \in ServiceValues, t \in TtlArgs :
                    PutOutcome(r.cache, r.stats, k, v, t) = PutOutcome(<<>>, NewStats, k, v, t)

\* C17 witness: a restarted engine has come up empty from a file that is not a
\* JSON document, and nothing has been written since.
LoadFailureNonFatalWitness ==
    /\ restarts = 1
    /\ pc["main"] = "ready"
    /\ persistence_path
    /\ file.kind = "malformed"
    /\ last_writer = ""
    /\ cache = <<>>
    /\ stats = NewStats

\* C18: a save whose cache_data holds a value json cannot encode skips that entry
\* alone: the file it leaves is a loadable snapshot that holds every other entry
\* collected, and a valid snapshot on disk is never replaced by an unloadable file.
PerEntryDegradation ==
    \A t \in Savers :
        AboutToWrite(t) =>
            LET f == JsonDump(cache_data[t], file)
                kept == SelectSeq(cache_data[t].entries, LAMBDA d : Serializable(d.value))
            IN /\ f.kind = "snapshot"
               /\ [i \in 1..Len(f.entries) |-> f.entries[i].key]
                     = [i \in 1..Len(kept) |-> kept[i].key]

\* the map a put of key k evicts from: the cache without the entry it overwrites
BeforeEviction(k) == RemoveKey(cache, k)

\* the entries still present when the i-th victim of the list ev is chosen
PresentAt(k, ev, i) ==
    {e \in {BeforeEviction(k)[n] : n \in 1..Len(BeforeEviction(k))} :
        \A j \in 1..(i - 1) : ev[j] # e.key}

\* the position in the cache of the entry with key k
PlaceOf(c, k) == CHOOSE n \in 1..Len(c) : c[n].key = k

\* C26: under FIFO every entry a put evicts has the earliest created_at of the
\* entries present when it is chosen, and a get hit leaves the victims of every
\* later put as they were.
FifoVictim ==
    (Ready /\ strategy = FIFO) =>
        /\ \A k \in Keys, v \in Values, t \in TtlArgs :
              LET ev == PutOutcome(cache, stats, k, v, t).evicted IN
              \A i \in 1..Len(ev) :
                 \E victim \in PresentAt(k, ev, i) :
                    /\ victim.key = ev[i]
                    /\ \A e \in PresentAt(k, ev, i) : victim.created_at <= e.created_at
        /\ \A g \in Keys :
              LET h == GetOutcome(cache, stats, g) IN
              h.ret # {} =>
                 \A k \in Keys, v \in Values, t \in TtlArgs :
                    PutOutcome(h.cache, h.stats, k, v, t).evicted
                       = PutOutcome(cache, stats, k, v, t).evicted

\* C26 witness: a full FIFO cache whose older entry has been read and whose newer
\* one has not; the put of a third key evicts the older entry.
FifoVictimWitness ==
    /\ Ready
    /\ strategy = FIFO
    /\ max_size = 2
    /\ Len(cache) = 2
    /\ cache[1].created_at < cache[2].created_at
    /\ cache[1].access_count > 0
    /\ cache[2].access_count = 0
    /\ \E k \in Keys \ KeysOf(cache) :
          PutOutcome(cache, stats, k, <<1>>, {}).evicted = <<cache[1].key>>

\* C27: under LFU every entry a put evicts has the least access_count of the
\* entries present when it is chosen and is the first of those in insertion
\* order; the key being put is never among the victims; an entry starts with
\* access_count 0 at its put and a get hit adds exactly 1.
LfuVictim ==
    (Ready /\ strategy = LFU) =>
        /\ \A k \in Keys, v \in Values, t \in TtlArgs :
              LET r == PutOutcome(cache, stats, k, v, t)
                  ev == r.evicted
              IN /\ \A i \in 1..Len(ev) :
                       \E victim \in PresentAt(k, ev, i) :
                          /\ victim.key = ev[i]
                          /\ victim.key # k
                          /\ \A e \in PresentAt(k, ev, i) :
                                /\ victim.access_count <= e.access_count
                                /\ (e.access_count = victim.access_count /\ e.key # victim.key)
                                      => /\ PlaceOf(cache, victim.key) < PlaceOf(cache, e.key)
                                         /\ victim.created_at <= e.created_at
                 /\ r.ok => /\ k \in KeysOf(r.cache)
                            /\ EntryOf(r.cache, k).access_count = 0
        /\ \A g \in Keys :
              LET h == GetOutcome(cache, stats, g) IN
              h.ret # {} =>
                 EntryOf(h.cache, g).access_count = EntryOf(cache, g).access_count + 1
        /\ SeqSum([n \in 1..Len(cache) |-> cache[n].access_count]) <= hist.hits

\* C27 witness: a full LFU cache whose older entry has been read more often than
\* its newer one; the put of a third key evicts the newer entry.
LfuVictimWitness ==
    /\ Ready
    /\ strategy = LFU
    /\ max_size = 2
    /\ Len(cache) = 2
    /\ cache[1].access_count > cache[2].access_count
    /\ \E k \in Keys \ KeysOf(cache) :
          LET r == PutOutcome(cache, stats, k, <<1>>, {}) IN
          /\ r.evicted = <<cache[2].key>>
          /\ KeySeq(r.cache) = <<cache[1].key, k>>

\* C28: under the TTL policy every entry a put evicts is expired if any entry
\* present when it is chosen is expired, and has otherwise the earliest created_at
\* of them.
TtlVictim ==
    (Ready /\ strategy = TTL) =>
        \A k \in Keys, v \in Values, t \in TtlArgs :
           LET ev == PutOutcome(cache, stats, k, v, t).evicted IN
           \A i \in 1..Len(ev) :
              \E victim \in PresentAt(k, ev, i) :
                 /\ victim.key = ev[i]
                 /\ IF \E e \in PresentAt(k, ev, i) : PastTtl(e, now)
                    THEN PastTtl(victim, now)
                    ELSE \A e \in PresentAt(k, ev, i) : victim.created_at <= e.created_at

\* C28 witness: a full cache under the TTL policy whose newer entry has expired and
\* whose older one has not; the put of a third key evicts the expired entry.
TtlVictimWitness ==
    /\ Ready
    /\ strategy = TTL
    /\ max_size = 2
    /\ Len(cache) = 2
    /\ ~PastTtl(cache[1], now)
    /\ PastTtl(cache[2], now)
    /\ \E k \in Keys \ KeysOf(cache) :
          LET r == PutOutcome(cache, stats, k, <<1>>, {}) IN
          /\ r.evicted = <<cache[2].key>>
          /\ KeySeq(r.cache) = <<cache[1].key, k>>

\* the keys of the map c, other than k, that the map d no longer holds
Dropped(c, d, k) == (KeysOf(c) \ {k}) \ KeysOf(d)

\* what every step of Put(k, v, t) shows: the clock and the get history stay, and
\* the put was refused, or is caught in the eviction loop, or stored v under k last
PutTrace(k, v) ==
    /\ UNCHANGED <<config, now, hist>>
    /\ \/ cache' = cache
       \/ phase' # phase
       \/ /\ cache' # <<>>
          /\ cache'[Len(cache')].key = k
          /\ cache'[Len(cache')].value = v

GetFrame ==
    Ready =>
        \A k \in Keys :
           LET r == GetOutcome(cache, stats, k) IN
           /\ k \notin KeysOf(cache) =>
                 /\ r.ret = {}
                 /\ r.cache = cache
                 /\ r.stats = [stats EXCEPT !.total_requests = @ + 1, !.miss_count = @ + 1]
           /\ r.ret # {} =>
                 /\ r.stats = [stats EXCEPT !.total_requests = @ + 1, !.hit_count = @ + 1]
                 /\ KeysOf(r.cache) = KeysOf(cache)
                 /\ \A j \in KeysOf(cache) \ {k} : EntryOf(r.cache, j) = EntryOf(cache, j)
                 /\ EntryOf(r.cache, k) =
                       [EntryOf(cache, k) EXCEPT !.last_accessed = now,
                                                 !.access_count = @ + 1]
                 /\ KeySeq(r.cache) = IF strategy = LRU
                                      THEN Append(SelectSeq(KeySeq(cache), LAMBDA j : j # k), k)
                                      ELSE KeySeq(cache)

\* C30 witness: under a policy other than LRU, a cache of two entries whose first
\* one was stored before now and has been read; one more get of it is a hit that
\* keeps it first.
GetFrameWitness ==
    /\ Ready
    /\ strategy # LRU
    /\ Len(cache) = 2
    /\ cache[1].created_at < now
    /\ cache[1].access_count = 1
    /\ cache[1].last_accessed = now
    /\ stats.hit_count = 1
    /\ LET r == GetOutcome(cache, stats, cache[1].key) IN
       /\ r.ret = {cache[1].value}
       /\ KeySeq(r.cache) = KeySeq(cache)
       /\ r.cache[1].access_count = 2

\* ------------------------------------------------------ query cache claims
\* the recorded call a is past its ttl
CallExpired(a) == \E x \in a.ttl : now - a.at > x

\* the dict d has the key name
HasField(d, name) == \E i \in 1..Len(d) : d[i][1] = name

\* C21: while a cache_query_result call that returned True has its query record
\* kept under its key, has not been invalidated and is not past its ttl,
\* get_query_result with the same model and context and any query equal to the
\* cached one after trimming and lowercasing returns an entry that carries the
\* call's response, retrieved chunks, context and model name.
QueryRoundTrip ==
    Ready =>
        \A a \in cached :
           ~CallExpired(a) =>
              \A q \in QueryTexts :
                 SameQuery(q, a.query) =>
                    LET r == GetQueryResultOutcome(cache, stats, q, a.model_name,
                                                   a.context_used, {})
                    IN /\ r.ret # {}
                       /\ \A e \in r.ret :
                             /\ e.response = a.response
                             /\ e.retrieved_chunks = a.retrieved_chunks
                             /\ e.context_used = a.context_used
                             /\ e.model_name = a.model_name

\* C22: while a cache_query_result call that returned True, whatever its context,
\* has its query record kept and is not past its ttl, get_query_result with the
\* call's query and model and no context is a hit; and after invalidate_query
\* of a query and a model, get_query_result of them with no context is a miss.
InvalidationScenario ==
    Ready =>
        /\ \A a \in cached :
              ~CallExpired(a) =>
                 GetQueryResultOutcome(cache, stats, a.query, a.model_name, <<>>, {}).ret # {}
        /\ \A q \in QueryTexts, m \in QueryModelNames :
              LET i == InvalidateQueryOutcome(cache, stats, q, m) IN
              GetQueryResultOutcome(i.cache, i.stats, q, m, <<>>, {}).ret = {}

\* C23: after invalidate_query of the query and the model of a recorded
\* cache_query_result call, whatever the call's context, neither the query record
\* nor the retrieval record of the call is in the map, and get_query_result with
\* the call's query, model and context is a miss.
InvalidateRemovesBoth ==
    Ready =>
        \A a \in cached :
           \A q \in QueryTexts :
              SameQuery(q, a.query) =>
                 LET i == InvalidateQueryOutcome(cache, stats, q, a.model_name)
                     h == get_query_hash(a.query, a.model_name, a.context_used, {})
                 IN /\ QueryKey(h) \notin KeysOf(i.cache)
                    /\ RetrievalKey(h) \notin KeysOf(i.cache)
                    /\ GetQueryResultOutcome(i.cache, i.stats, q, a.model_name,
                                             a.context_used, {}).ret = {}

\* C24: a cache_query_result call without a ttl that returns True leaves the query
\* record with a ttl of 1800 seconds and the retrieval record with a ttl of 3600
\* seconds.
DefaultTtls ==
    Ready =>
        \A query \in QueryTexts, answer \in Answers, context_used \in QueryContexts,
           model_name \in QueryModelNames :
           LET r == CacheQueryResultOutcome(cache, stats, query, answer.response,
                                            answer.retrieved_chunks, context_used,
                                            model_name, {})
               h == get_query_hash(query, model_name, context_used, {})
           IN (r.ok /\ ~r.spin) =>
                 /\ QueryKey(h) \in KeysOf(r.cache) =>
                       EntryOf(r.cache, QueryKey(h)).ttl = {1800}
                 /\ RetrievalKey(h) \in KeysOf(r.cache) =>
                       EntryOf(r.cache, RetrievalKey(h)).ttl = {3600}

\* C25: while a retrieval record written by cache_query_result, whatever the
\* model and the context of the call, is in the map and not past its ttl, whether
\* or not the query record is still there, get_retrieval_result of the call's
\* query is a hit that carries the call's retrieved chunks.
RetrievalReuse ==
    Ready =>
        \A i \in 1..Len(cache) :
           LET e == cache[i] IN
           (e.key[1] = "retrieval:" /\ HasField(e.value, "context") /\ ~PastTtl(e, now)) =>
              LET g == GetRetrievalResultOutcome(cache, stats, Field(e.value, "query")) IN
              /\ g.ret # {}
              /\ \A d \in g.ret : Field(d, "chunks") = Field(e.value, "chunks")

\* C38: whenever cache_query_result returns True, the query record and the
\* retrieval record of the call are both in the map right afterwards, for every
\* capacity, max_size = 1 and a byte budget that fits one record included.
BothRecordsStored ==
    Ready =>
        \A query \in QueryTexts, answer \in Answers, context_used \in QueryContexts,
           model_name \in QueryModelNames, ttl \in QueryTtlArgs :
           LET r == CacheQueryResultOutcome(cache, stats, query, answer.response,
                                            answer.retrieved_chunks, context_used,
                                            model_name, ttl)
               h == get_query_hash(query, model_name, context_used, {})
           IN (r.ok /\ ~r.spin) =>
                 /\ QueryKey(h) \in KeysOf(r.cache)
                 /\ RetrievalKey(h) \in KeysOf(r.cache)

\* the key k is among the keys a call evicted
EvictedBy(r, k) == \E n \in 1..Len(r.evicted) : r.evicted[n] = k

\* C39: a record written by cache_retrieval_result for a query, while it is in
\* the map and not past its ttl, is returned by get_retrieval_result of the
\* query, is neither overwritten by cache_query_result of the query (unless
\* evicted for room) nor deleted by invalidate_query of the query, for every
\* model and context, the empty ones included.
RetrievalIndependent ==
    Ready =>
        \A i \in 1..Len(cache) :
           LET e == cache[i] IN
           (e.key[1] = "retrieval:" /\ HasField(e.value, "retrieval_time")
               /\ ~PastTtl(e, now)) =>
              LET q == Field(e.value, "query") IN
              /\ GetRetrievalResultOutcome(cache, stats, q).ret = {e.value}
              /\ \A answer \in Answers, context_used \in QueryContexts,
                    model_name \in QueryModelNames, ttl \in QueryTtlArgs :
                    LET r == CacheQueryResultOutcome(cache, stats, q, answer.response,
                                                     answer.retrieved_chunks,
                                                     context_used, model_name, ttl)
                    IN ~r.spin =>
                          \/ EvictedBy(r, e.key)
                          \/ /\ e.key \in KeysOf(r.cache)
                             /\ EntryOf(r.cache, e.key).value = e.value
              /\ \A model_name \in QueryModelNames :
                    e.key \in KeysOf(InvalidateQueryOutcome(cache, stats, q, model_name).cache)

\* C35: the ttl recorded by a put is the ttl argument whenever one is given,
\* ttl = 0 included, so that an entry put with ttl = 0 is expired as soon as any
\* time has elapsed; it is the default ttl only when no argument is given; and
\* an entry put with no ttl on an engine without a default ttl never expires.
EffectiveTtlHonoured ==
    Ready =>
        \A k \in Keys, v \in Values, t \in TtlArgs \cup {{0}} :
           LET r == PutOutcome(cache, stats, k, v, t) IN
           (r.ok /\ ~r.spin) =>
              LET e == EntryOf(r.cache, k) IN
              /\ e.ttl = (IF t = {} THEN default_ttl ELSE t)
              /\ t = {0} => IsExpired(e, now + 1)
              /\ (t = {} /\ default_ttl = {}) =>
                    \A d \in 0..MaxTime : ~IsExpired(e, now + d)

\* _save_cache on an engine nobody else touches, at clock value t: the file it
\* writes for the map c and the counters st when json can encode every value
SnapshotOf(c, st, t) ==
    LET live == SelectSeq(c, LAMBDA e : ~IsExpired(e, t)) IN
    [kind |-> "snapshot",
     entries |-> [i \in 1..Len(live) |-> EntryData(live[i])],
     stats |-> SavedStats(st)]

\* C34: in every state of the engine, whatever puts (new or overwriting), gets
\* (the removal of an expired entry included), deletes, clears, capacity
\* evictions and sweeps were made, entry_count is the number of keys in the map;
\* and so it is in the engine that loads a snapshot of this one, now or later.
EntryCountMatches ==
    phase # "new" =>
        /\ stats.entry_count = Len(cache)
        /\ \A t \in now..MaxTime :
              LET r == LoadOutcome(SnapshotOf(cache, stats, now), <<>>, NewStats, t) IN
              r.stats.entry_count = Len(r.cache)

\* C34 witness: an engine that has evicted for room holds an expired entry; the
\* get of its key removes it and leaves entry_count equal to the number of keys.
EntryCountMatchesWitness ==
    /\ Ready
    /\ stats.eviction_count >= 1
    /\ \E i \in 1..Len(cache) :
          /\ IsExpired(cache[i], now)
          /\ LET r == GetOutcome(cache, stats, cache[i].key) IN
             /\ Len(r.cache) = Len(cache) - 1
             /\ r.stats.entry_count = Len(r.cache)

\* C36: the engine constructed with positive limits from a snapshot of this one
\* holds at most max_size entries and at most max_memory bytes right after
\* __init__, also when the snapshot holds more than the new limits.
LoadRespectsCapacity ==
    Ready =>
        \A ms \in {m \in MaxSizeArgs : m >= 1}, mb \in {m \in MaxMemoryMbArgs : m >= 1} :
           LET r == LoadOutcome(SnapshotOf(cache, stats, now), <<>>, NewStats, now) IN
           /\ Len(r.cache) <= ms
           /\ r.stats.total_size <= mb * BytesPerMB

\* C33: a call of a function wrapped with cache_rag_query or
\* cache_document_processing raises no error of the cache layer; on a miss it
\* returns the function's own result and stores it, and a later call with the
\* same key while the entry is live returns it without running the function.
CachingNeverFails ==
    Ready =>
        \A cache_key \in DecoratorKeys, result \in Values, ttl \in {RagQueryTtl, DocProcessingTtl} :
           LET w == WrapperOutcome(cache, stats, cache_key, result, ttl) IN
           /\ ~w.raised
           /\ w.ran =>
                 /\ w.ret = {result}
                 /\ cache_key \in KeysOf(w.cache)
                 /\ \A other \in Values :
                       LET again == WrapperOutcome(w.cache, w.stats, cache_key, other, ttl) IN
                       /\ ~again.ran
                       /\ again.ret = {result}

\* the threads whose call of the function op has returned
Returned(op) == {t \in Getters : getter[t].pc = "done" /\ getter[t].op = op}

\* C40: whatever the interleaving of the first calls of get_cache_service and of
\* get_query_cache, at most one CacheService (and so one cleanup thread) and at
\* most one QueryCache are ever constructed, and every call returns that one
\* object, fully constructed; the QueryCache holds that CacheService.
SingletonConstruction ==
    /\ Len(instances) <= 1
    /\ Len(query_caches) <= 1
    /\ \A t \in Returned("get_cache_service") :
          /\ getter[t].ret = {1}
          /\ instances[1] = "constructed"
    /\ \A t \in Returned("get_query_cache") :
          /\ getter[t].ret = {1}
          /\ query_caches[1].cache = {1}
          /\ instances[1] = "constructed"

\* C40 witness: a thread that passed the first check of get_cache_service while
\* the global was None holds the lock and is about to find the global set by
\* another thread; calls of both functions have returned.
SingletonConstructionWitness ==
    /\ \E t \in Getters :
          /\ getter[t].pc = "recheck"
          /\ getter[t].op = "get_cache_service"
          /\ cache_service_lock = t
          /\ cache_service_instance = {1}
    /\ Returned("get_cache_service") # {}
    /\ Returned("get_query_cache") # {}

\* C32: whenever a caller is inside get_stats, holding the lock, whatever gets,
\* puts, deletes, sweeps and saves of other threads came before, the CacheStats
\* object it returns (a new object, which later operations cannot reach) has
\* hit_count + miss_count = total_requests and entry_count equal to the number
\* of entries in the map.
ConsistentStatsSnapshot ==
    pc["caller"] = "locked" =>
        LET snapshot == GetStatsOutcome(stats) IN
        /\ snapshot.hit_count + snapshot.miss_count = snapshot.total_requests
        /\ snapshot.entry_count = Len(cache)

\* the map holds an entry for the key k whose ttl has elapsed
HoldsExpired(k) == k \in KeysOf(cache) /\ IsExpired(EntryOf(cache, k), now)

\* C31: under fair scheduling, an entry whose ttl has elapsed while the engine
\* has not been shut down is eventually out of the map (or shutdown begins),
\* whether or not a get, put or delete touches its key and whether or not the
\* save of a sweep cycle raises.
ExpiredPurged ==
    \A k \in ThreadKeys :
       (HoldsExpired(k) /\ ~stop_cleanup) ~> (~HoldsExpired(k) \/ stop_cleanup)

\* C31 witness: the save of the running sweep cycle is about to raise (the map
\* changed under its iteration) while the map holds an entry that expired after
\* this cycle's sweep: only a later cycle can purge it.
ExpiredPurgedWitness ==
    /\ pc["sweeper"] = "save_items"
    /\ cache_data["sweeper"].dirty
    /\ ~stop_cleanup
    /\ \E k \in ThreadKeys : HoldsExpired(k)

\* no thread holds the engine lock while it asks for the lock of QueryCache
LockOrder == \A t \in Queriers : pc[t] = "query_lock" => lock # t

\* C37: locks are taken in the order QueryCache lock, engine lock, and under
\* fair scheduling no thread waits for ever for a lock: the sweeper that asks
\* for the engine lock gets it, and so does a QueryCache operation, and a thread
\* that asks for the lock of QueryCache gets it.
DeadlockFreedom ==
    /\ []LockOrder
    /\ pc["sweeper"] = "cleanup_expired" ~> pc["sweeper"] = "cleaning"
    /\ \A t \in Queriers :
          /\ pc[t] = "query_lock" ~> pc[t] = "query_locked"
          /\ pc[t] = "query_locked" ~> pc[t] = "engine_locked"

====
